---------------------------- MODULE Spec2Model ----------------------------
(***************************************************************************)
(* A model of the Nebius S3 object-store backend NBS3Interface             *)
(* (skyplane/obj_store/nbs3_interface.py) together with the S3-compatible  *)
(* service it talks to.                                                    *)
(*                                                                         *)
(* The class body of NBS3Interface defines get_obj_size, exists and        *)
(* upload_object twice.  A Python class body is executed top to bottom and *)
(* a later def rebinds the name, so the methods a caller reaches are the   *)
(* LAST definitions (lines 312, 320 and 328).  The model follows that      *)
(* binding.                                                                *)
(*                                                                         *)
(* Conventions.  An optional Python argument is a set: {} is None and {v}  *)
(* is the value v.  A byte string is a sequence of numbers 0..MaxByte,     *)
(* byte 0 being the NUL byte a file system pads with.  Keys are numbered.  *)
(* A function whose domain is the set of existing names models a bucket    *)
(* (key -> bytes) and the local file system (path -> bytes).               *)
(***************************************************************************)
EXTENDS Integers, Sequences, FiniteSets, TLC

\* ---------------------------------------------------------------- bounds
MaxLen == 1
MaxByte == 1
NumKeys == 1

Byte == 0..MaxByte
Contents == UNION {[1..n -> Byte] : n \in 0..MaxLen}
Keys == 1..NumKeys

\* ------------------------------------------------------------- variables
VARIABLES
  region,        \* self._region ("" when unset)
  clients,       \* keys of self._cached_s3_clients
  bucketExists,  \* the service lists self.bucket_name among the buckets
  objects,       \* the bucket: present key -> bytes
  locked,        \* keys the service refuses to delete (reported per key)
  files,         \* local files: existing path -> bytes
  last,          \* the call that finished last: op, args, exc, ret, wire
  hist,          \* per key, what the caller last got done without an error:
                 \* an upload of some bytes, or a deletion
  job,           \* a range-split download of one object: the download_object
                 \* calls still to make (todo) and those made (done)
  mpSession,     \* the multipart session of the service: none, open, completed
  mpParts,       \* the parts the service accepted: part number -> bytes
  cmu,           \* complete_multipart_upload in progress: pc, all_parts, wire
  sent,          \* part numbers whose upload_object call has returned
  iters,         \* the generators list_objects has returned, in call order
  cur,           \* which backend instance region and clients belong to
  peer,          \* _region and client cache of the other backend instance
  built,         \* the low-level clients constructed so far, in order
  meta,          \* the lru_cache of get_obj_metadata: key -> head_object response
  stamps,        \* the service's LastModified of each key written through it
  auth,          \* a NebiusAuthentication object, the temporary key files on
                 \* disk, and whether the Nebius SDK can be imported
  threads,       \* concurrent calls on one backend object: each thread's
                 \* position and local variables
  vm,            \* a NebiusServer, the instance at the provider, the clock
  prov           \* a provision_instance call and the provider's disks and
                 \* instances

mpvars == <<mpSession, mpParts, cmu, sent>>

\* state that only some of the specifications below use
extvars == <<iters, cur, peer, built, meta, stamps, auth, threads, vm, prov>>

vars == <<region, clients, bucketExists, objects, locked, files, last, hist, job,
          mpSession, mpParts, cmu, sent, iters, cur, peer, built,
          meta, stamps, auth, threads, vm, prov>>

\* ------------------------------------------------------------ primitives
\* f with x mapped to v (x may be new)
Put(f, x, v) == [y \in DOMAIN f \cup {x} |-> IF y = x THEN v ELSE f[y]]

\* f without the names in S
Drop(f, S) == [y \in DOMAIN f \ S |-> f[y]]

Min(a, b) == IF a < b THEN a ELSE b

EmptyFn == [y \in {} |-> 0]

Range(s) == {s[i] : i \in DOMAIN s}

\* the record left behind by a finished call: the method, its arguments, the
\* exception it raised ("none": it returned), the value it returned, the
\* wire calls it issued, and the exception its failing wire call (or client
\* lookup) raised ("none": nothing failed)
Done(op, args, exc, ret, wire, cause) ==
  [op |-> op, args |-> args, exc |-> exc, ret |-> ret, wire |-> wire,
   cause |-> cause]

None == {}

\* an ideal digest: equal exactly on equal byte strings
Md5(b) == [md5 |-> b]

\* --------------------------------------------------- regions and clients
NEBIUS_REGIONS == {"eu-north1"}

\* the endpoint of each region of the table
Endpoint == "eu-north1" :> "https://storage.eu-north1.nebius.cloud"

\* endpoint_url=self.NEBIUS_REGIONS[region]: the lookup of a region that is not
\* a key raises KeyError
EndpointUrl(r) == IF r \in DOMAIN Endpoint THEN Endpoint[r] ELSE "KeyError"

Regions == {"eu-north1", "eu-west1"}

\* a property that answers eu-north1 whatever region is stored
aws_region_fixed == "eu-north1"

\* property aws_region: an unset region becomes eu-north1 and is stored
aws_region == IF region = "" THEN "eu-north1" ELSE region

\* how the network and the service answer one wire call: the service
\* serves it from its state, refuses it (a ClientError), or the call never
\* gets an answer (a transport error, not a ClientError)
Net == {"served", "denied", "transport"}

NetExc(out) ==
  IF out = "denied" THEN "ClientError.AccessDenied" ELSE "EndpointConnectionError"


\* _s3_client(): the region it resolves, and what it leaves in the object
ClientOk == aws_region \in NEBIUS_REGIONS

S3Client ==
  /\ region' = aws_region
  /\ clients' = IF ClientOk THEN clients \cup {aws_region} ELSE clients

\* what the service answers to a served request on an object of the bucket
ObjectExc(key) ==
  IF ~bucketExists THEN "ClientError.NoSuchBucket"
  ELSE IF key \notin DOMAIN objects THEN "ClientError.NoSuchKey"
  ELSE "none"

WireExc(out, served) == IF out = "served" THEN served ELSE NetExc(out)

\* ------------------------------------------------------------ upload_object
\* NBS3Interface.upload_object as bound in the class: (local_path,
\* remote_path).  Any further argument fails Python's argument binding.
UploadObject(path, key, part_number, upload_id, check_md5, mime_type) ==
  LET args == [path |-> path, key |-> key, part_number |-> part_number,
               upload_id |-> upload_id, check_md5 |-> check_md5,
               mime_type |-> mime_type]
  IN
  IF part_number # None \/ upload_id # None \/ check_md5 # None \/ mime_type # None
  THEN /\ last' = Done("upload_object", args, "TypeError", None, <<>>, "TypeError")
       /\ UNCHANGED <<region, clients, bucketExists, objects, locked, files, hist>>
  ELSE
    /\ S3Client
    /\ UNCHANGED <<bucketExists, locked, files>>
    /\ IF ~ClientOk
       THEN /\ last' = Done("upload_object", args, "Exception", None, <<>>, "ValueError")
            /\ UNCHANGED <<objects, hist>>
       ELSE IF path \notin DOMAIN files
       THEN /\ last' = Done("upload_object", args, "Exception", None, <<>>, "FileNotFoundError")
            /\ UNCHANGED <<objects, hist>>
       ELSE \E out \in Net :
         LET served == IF bucketExists THEN "none" ELSE "ClientError.NoSuchBucket"
             cause == WireExc(out, served)
             wire == <<[call |-> "upload_file", key |-> key, body |-> files[path]]>>
         IN
         /\ objects' = IF cause = "none" THEN Put(objects, key, files[path]) ELSE objects
         /\ hist' = IF cause = "none"
                    THEN Put(hist, key, [what |-> "uploaded", data |-> files[path]])
                    ELSE hist
         /\ last' = Done("upload_object", args,
                         IF cause = "none" THEN "none" ELSE "Exception",
                         None, wire, cause)

\* --------------------------------------------------------------- get_object
\* a read of a stream that was already consumed
ReadBodyConsumed(body) == <<>>

\* response['Body'].read(): the whole body
ReadBody(body) == body

GetObject(key) ==
  /\ S3Client
  /\ UNCHANGED <<bucketExists, objects, locked, files, hist>>
  /\ IF ~ClientOk
     THEN last' = Done("get_object", [key |-> key], "NoSuchObjectException", None,
                       <<>>, "ValueError")
     ELSE \E out \in Net :
       LET cause == WireExc(out, ObjectExc(key))
           wire == <<[call |-> "get_object", key |-> key, range |-> None]>>
       IN
       last' = IF cause = "none"
               THEN Done("get_object", [key |-> key], "none", ReadBody(objects[key]),
                         wire, cause)
               ELSE Done("get_object", [key |-> key], "NoSuchObjectException", None,
                         wire, cause)

\* ------------------------------------------------------------- get_obj_size
\* the definition bound in the class (line 312): a head_object per call
GetObjSize(key) ==
  /\ S3Client
  /\ UNCHANGED <<bucketExists, objects, locked, files, hist>>
  /\ IF ~ClientOk
     THEN last' = Done("get_obj_size", [key |-> key], "NoSuchObjectException", None,
                       <<>>, "ValueError")
     ELSE \E out \in Net :
       LET cause == WireExc(out, ObjectExc(key))
           wire == <<[call |-> "head_object", key |-> key]>>
       IN
       last' = IF cause = "none"
               THEN Done("get_obj_size", [key |-> key], "none", Len(objects[key]),
                         wire, cause)
               ELSE Done("get_obj_size", [key |-> key], "NoSuchObjectException", None,
                         wire, cause)

\* ------------------------------------------------------------------- exists
\* exists as the shadowed definition of line 175 would leave it: only the
\* service's refusals are turned into False
ExistsCatchClientError(cause) ==
  IF cause \in {"ClientError.NoSuchKey", "ClientError.NoSuchBucket",
                "ClientError.AccessDenied"}
  THEN "none" ELSE cause

\* the definition bound in the class (line 320): a bare except, so nothing
\* that the lookup or the wire call raises leaves the method
ExistsCatch(cause) == "none"

Exists(key) ==
  /\ S3Client
  /\ UNCHANGED <<bucketExists, objects, locked, files, hist>>
  /\ IF ~ClientOk
     THEN last' = Done("exists", [key |-> key], ExistsCatch("ValueError"),
                       IF ExistsCatch("ValueError") = "none" THEN FALSE ELSE None,
                       <<>>, "ValueError")
     ELSE \E out \in Net :
       LET cause == WireExc(out, ObjectExc(key))
           wire == <<[call |-> "head_object", key |-> key]>>
       IN
       last' = IF cause = "none"
               THEN Done("exists", [key |-> key], "none", TRUE, wire, cause)
               ELSE Done("exists", [key |-> key], ExistsCatch(cause),
                         IF ExistsCatch(cause) = "none" THEN FALSE ELSE None,
                         wire, cause)

\* ------------------------------------------------------------ bucket_exists
\* except Exception around the client lookup and list_buckets
BucketExistsCatch(cause) == "none"

BucketExists ==
  /\ S3Client
  /\ UNCHANGED <<bucketExists, objects, locked, files, hist>>
  /\ IF ~ClientOk
     THEN last' = Done("bucket_exists", None, BucketExistsCatch("ValueError"),
                       IF BucketExistsCatch("ValueError") = "none" THEN FALSE ELSE None,
                       <<>>, "ValueError")
     ELSE \E out \in Net :
       LET cause == WireExc(out, "none")
           wire == <<[call |-> "list_buckets"]>>
       IN
       last' = IF cause = "none"
               THEN Done("bucket_exists", None, "none", bucketExists, wire, cause)
               ELSE Done("bucket_exists", None, BucketExistsCatch(cause),
                         IF BucketExistsCatch(cause) = "none" THEN FALSE ELSE None,
                         wire, cause)

\* ----------------------------------------------------------- delete_objects
\* keys[:1000] and keys[1000:]
DeleteBatch == 1000

\* a slice that stops one key early while the rest still starts after 1000
BatchShort(keys) == SubSeq(keys, 1, Min(DeleteBatch - 1, Len(keys)))

Batch(keys) == SubSeq(keys, 1, Min(DeleteBatch, Len(keys)))

Rest(keys) == SubSeq(keys, Min(DeleteBatch, Len(keys)) + 1, Len(keys))

\* the service's answer to a served batch delete: a 200 response whose
\* Errors list names the keys it could not delete; the others are gone
\* (a key that is absent counts as deleted)
DeletedNone(objs, batch) == objs

Deleted(objs, batch) == Drop(objs, Range(batch) \ locked)

\* the while loop: one wire call per batch; the call numbered fail.at gets
\* the answer fail.out instead of being served (fail.at = 0: all served);
\* the response is not read
RECURSIVE DeleteLoop(_, _, _, _)
DeleteLoop(keys, objs, wire, fail) ==
  IF keys = <<>>
  THEN [objs |-> objs, wire |-> wire, exc |-> "none"]
  ELSE LET batch == Batch(keys)
           w == Append(wire, [call |-> "delete_objects", keys |-> batch])
           cause == IF Len(w) = fail.at THEN NetExc(fail.out)
                    ELSE IF ~bucketExists THEN "ClientError.NoSuchBucket"
                    ELSE "none"
       IN IF cause # "none"
          THEN [objs |-> objs, wire |-> w, exc |-> cause]
          ELSE DeleteLoop(Rest(keys), Deleted(objs, batch), w, fail)

Fails(n) == {[at |-> 0, out |-> "served"]} \cup [at : 1..n, out : {"denied", "transport"}]

DeleteObjects(keys) ==
  /\ S3Client
  /\ UNCHANGED <<bucketExists, locked, files>>
  /\ IF ~ClientOk
     THEN /\ last' = Done("delete_objects", [keys |-> keys], "ValueError", None,
                          <<>>, "ValueError")
          /\ UNCHANGED <<objects, hist>>
     ELSE \E fail \in Fails((Len(keys) + DeleteBatch - 1) \div DeleteBatch) :
       \E r \in {DeleteLoop(keys, objects, <<>>, fail)}, named \in {Range(keys)} :
       /\ objects' = r.objs
       /\ hist' = IF r.exc = "none"
                  THEN [k \in DOMAIN hist \cup named |->
                          IF k \in named THEN [what |-> "deleted", data |-> <<>>]
                          ELSE hist[k]]
                  ELSE Drop(hist, named)
       /\ last' = Done("delete_objects", [keys |-> keys], r.exc, None, r.wire, r.exc)


\* ---------------------------------------------------------- download_object
\* Python truthiness of an optional number: None and 0 are false
Truthy(x) == x # None /\ x # {0}

TheVal(x) == CHOOSE v \in x : TRUE

\* the Range header: bytes=<offset>-<offset + size - 1>, present only when
\* both are given; a pair <<first, last>> of inclusive byte positions
RangeHeader(offset_bytes, size_bytes) ==
  IF offset_bytes # None /\ size_bytes # None
  THEN {<<TheVal(offset_bytes), TheVal(offset_bytes) + TheVal(size_bytes) - 1>>}
  ELSE None

\* the service's answer to GetObject: the bytes first..last of the object
\* (positions from 0, last clipped to the end), or the whole object.  A
\* header whose last position is below its first is not a byte range, and
\* the service ignores it as HTTP prescribes.
RangeGiven(range) == range # None /\ TheVal(range)[1] <= TheVal(range)[2]

RangeExc(obj, range) ==
  IF RangeGiven(range) /\ TheVal(range)[1] >= Len(obj)
  THEN "ClientError.InvalidRange" ELSE "none"

RangeBody(obj, range) ==
  IF ~RangeGiven(range) THEN obj
  ELSE SubSeq(obj, TheVal(range)[1] + 1, Min(TheVal(range)[2] + 1, Len(obj)))

\* open(dst_file_path, "wb+" if write_at_offset else "wb"): both modes
\* truncate the file to length zero
OpenForWrite(data, write_at_offset) == <<>>

\* f.write(b) at position pos of a file holding data: a gap is NUL-filled
WriteAt(data, pos, b) ==
  IF b = <<>> THEN data
  ELSE [i \in 1..(IF Len(data) > pos + Len(b) THEN Len(data) ELSE pos + Len(b)) |->
          IF i > pos /\ i <= pos + Len(b) THEN b[i - pos]
          ELSE IF i <= Len(data) THEN data[i] ELSE 0]

\* the read loop: blocks of write_block_size until an empty read; returns
\* the file and the bytes fed to the digest
RECURSIVE WriteBlocks(_, _, _, _, _)
WriteBlocks(data, pos, body, blk, fed) ==
  LET b == SubSeq(body, 1, Min(blk, Len(body))) IN
  IF b = <<>> THEN [data |-> data, fed |-> fed]
  ELSE WriteBlocks(WriteAt(data, pos, b), pos + Len(b),
                   SubSeq(body, Len(b) + 1, Len(body)), blk, fed \o b)

\* a download that opens the destination for writing before it fetches
DownloadObjectOpenFirst(key, path, offset_bytes, size_bytes, write_at_offset, generate_md5, blk) ==
  LET args == [key |-> key, path |-> path, offset_bytes |-> offset_bytes,
               size_bytes |-> size_bytes, write_at_offset |-> write_at_offset,
               generate_md5 |-> generate_md5]
      range == RangeHeader(offset_bytes, size_bytes)
      wire == <<[call |-> "get_object", key |-> key, range |-> range]>>
  IN
  /\ S3Client
  /\ UNCHANGED <<bucketExists, objects, locked, hist>>
  /\ IF ~ClientOk
     THEN /\ last' = Done("download_object", args, "ValueError", None, <<>>, "ValueError")
          /\ UNCHANGED files
     ELSE IF key = 0 \/ (Truthy(offset_bytes) /\ ~Truthy(size_bytes))
     THEN /\ last' = Done("download_object", args, "AssertionError", None, <<>>,
                          "AssertionError")
          /\ UNCHANGED files
     ELSE \E out \in Net :
       LET served == IF ObjectExc(key) # "none" THEN ObjectExc(key)
                     ELSE RangeExc(objects[key], range)
           cause == WireExc(out, served)
       IN
       IF cause # "none"
       THEN /\ last' = Done("download_object", args, cause, None, wire, cause)
            /\ files' = Put(files, path, <<>>)
       ELSE LET body == RangeBody(objects[key], range)
                old == IF path \in DOMAIN files THEN files[path] ELSE <<>>
                opened == OpenForWrite(old, write_at_offset)
            IN
            IF write_at_offset /\ offset_bytes = None
            THEN \* f.seek(None)
                 /\ files' = Put(files, path, opened)
                 /\ last' = Done("download_object", args, "TypeError", None, wire,
                                 "TypeError")
            ELSE LET pos == IF write_at_offset THEN TheVal(offset_bytes) ELSE 0
                     w == WriteBlocks(opened, pos, body, blk, <<>>)
                 IN
                 /\ files' = Put(files, path, w.data)
                 /\ last' = Done("download_object", args, "none",
                                 [mime_type |-> "binary/octet-stream",
                                  md5 |-> IF generate_md5 THEN {Md5(w.fed)} ELSE None],
                                 wire, "none")

\* download_object
DownloadObject(key, path, offset_bytes, size_bytes, write_at_offset, generate_md5, blk) ==
  LET args == [key |-> key, path |-> path, offset_bytes |-> offset_bytes,
               size_bytes |-> size_bytes, write_at_offset |-> write_at_offset,
               generate_md5 |-> generate_md5]
      range == RangeHeader(offset_bytes, size_bytes)
      wire == <<[call |-> "get_object", key |-> key, range |-> range]>>
  IN
  /\ S3Client
  /\ UNCHANGED <<bucketExists, objects, locked, hist>>
  /\ IF ~ClientOk
     THEN /\ last' = Done("download_object", args, "ValueError", None, <<>>, "ValueError")
          /\ UNCHANGED files
     ELSE IF key = 0 \/ (Truthy(offset_bytes) /\ ~Truthy(size_bytes))
     THEN /\ last' = Done("download_object", args, "AssertionError", None, <<>>,
                          "AssertionError")
          /\ UNCHANGED files
     ELSE \E out \in Net :
       LET served == IF ObjectExc(key) # "none" THEN ObjectExc(key)
                     ELSE RangeExc(objects[key], range)
           cause == WireExc(out, served)
       IN
       IF cause # "none"
       THEN /\ last' = Done("download_object", args, cause, None, wire, cause)
            /\ UNCHANGED files
       ELSE LET body == RangeBody(objects[key], range)
                old == IF path \in DOMAIN files THEN files[path] ELSE <<>>
                opened == OpenForWrite(old, write_at_offset)
            IN
            IF write_at_offset /\ offset_bytes = None
            THEN \* f.seek(None)
                 /\ files' = Put(files, path, opened)
                 /\ last' = Done("download_object", args, "TypeError", None, wire,
                                 "TypeError")
            ELSE LET pos == IF write_at_offset THEN TheVal(offset_bytes) ELSE 0
                     w == WriteBlocks(opened, pos, body, blk, <<>>)
                 IN
                 /\ files' = Put(files, path, w.data)
                 /\ last' = Done("download_object", args, "none",
                                 [mime_type |-> "binary/octet-stream",
                                  md5 |-> IF generate_md5 THEN {Md5(w.fed)} ELSE None],
                                 wire, "none")

\* ------------------------------------------------------------ create_bucket
\* a region tag is the sequence of its ":"-separated fields;
\* region_tag.split(":")[-1] if ":" in region_tag else region_tag
TagRegion(tag) == tag[Len(tag)]

Tags == {<<"nebius", "eu-north1">>, <<"eu-north1">>, <<"nebius", "eu-west1">>}

CreateBucket(tag) ==
  LET r == TagRegion(tag)
      lb == [call |-> "list_buckets"]
      cb == [call |-> "create_bucket"]
  IN
  /\ UNCHANGED <<objects, locked, files, hist>>
  /\ IF r \notin NEBIUS_REGIONS
     THEN /\ last' = Done("create_bucket", [tag |-> tag], "ValueError", None, <<>>,
                          "ValueError")
          /\ UNCHANGED <<region, clients, bucketExists>>
     ELSE
       /\ region' = r
       /\ clients' = clients \cup {r}
       /\ \E out1 \in Net :
            LET found == IF out1 = "served" THEN bucketExists ELSE FALSE IN
            IF found
            THEN /\ last' = Done("create_bucket", [tag |-> tag], "none", None, <<lb>>,
                                 "none")
                 /\ UNCHANGED bucketExists
            ELSE \E out2 \in Net, owned \in {"none", "ClientError.BucketAlreadyOwnedByYou"} :
              LET cause2 == WireExc(out2, IF bucketExists THEN owned ELSE "none") IN
              IF cause2 # "none"
              THEN /\ last' = Done("create_bucket", [tag |-> tag], cause2, None,
                                   <<lb, cb>>, cause2)
                   /\ UNCHANGED bucketExists
              ELSE /\ bucketExists' = TRUE
                   /\ \E out3 \in Net :
                        LET cause3 == WireExc(out3, "none") IN
                        last' = Done("create_bucket", [tag |-> tag], cause3, None,
                                     <<lb, cb, lb>>, cause3)

NoJob == [todo |-> <<>>, done |-> <<>>]

NoCmu == [pc |-> "idle", key |-> 0, all_parts |-> <<>>, wire |-> <<>>]

NoMultipart ==
  /\ mpSession = "none"
  /\ mpParts = EmptyFn
  /\ cmu = NoCmu
  /\ sent = {}

NoList == iters = <<>>

NoPeer ==
  /\ cur = 1
  /\ peer = [region |-> "", clients |-> {}]
  /\ built = <<>>

NoMeta ==
  /\ meta = EmptyFn
  /\ stamps = EmptyFn

\* the state before NebiusAuthentication(credentials) is called
NoAuthObject(have_sdk) ==
  [have_sdk |-> have_sdk, made |-> FALSE, credentials |-> EmptyFn, sdk |-> "None",
   cleanup_tasks |-> <<>>, private_key_path |-> 0, s3_only_mode |-> FALSE,
   disk |-> {}, nkey |-> 0]

NoAuth == auth = NoAuthObject(TRUE)

\* a NebiusServer nobody waits on
NoVm ==
  vm = [auth |-> "None", instance |-> "None", status |-> "STARTING", changed |-> 0,
        now |-> 0, pc |-> "idle", target |-> "", timeout |-> 0, start |-> 0,
        ret |-> "", exc |-> "none"]

\* a provider account nobody provisions on
NoProv ==
  prov = [project |-> "", disks |-> <<>>, requests |-> <<>>, calls |-> 0,
          pc |-> "idle", name |-> "", disk_id |-> 0, waited |-> FALSE,
          exc |-> "none", ret |-> 0]

\* no call is running on another thread
NoThreads == threads = <<>>

NoExt ==
  /\ NoList
  /\ NoPeer
  /\ NoMeta
  /\ NoAuth
  /\ NoThreads
  /\ NoVm
  /\ NoProv

\* -------------------------------------------------------------- the program
\* One backend object on one bucket.  The base class sets up _region; the
\* source file "src" holds any byte string, "dst" does not exist yet.
Init ==
  /\ region \in {""} \cup Regions
  /\ clients = {}
  /\ bucketExists \in BOOLEAN
  /\ objects = EmptyFn
  /\ locked \in SUBSET Keys
  /\ \E b \in Contents : files = [p \in {"src"} |-> b]
  /\ last = Done("init", None, "none", None, <<>>, "none")
  /\ hist = EmptyFn
  /\ job = NoJob
  /\ NoMultipart
  /\ NoExt

Opt(S) == {None} \cup {{v} : v \in S}

KeyLists == UNION {[1..n -> Keys] : n \in 0..NumKeys}

\* the optional arguments of an upload_object call: none, a part of a
\* multipart session, a checksum that is or is not the file's, a MIME type
UploadArgs ==
  {<<None, None, None, None>>,
   <<{1}, {"u"}, None, None>>,
   <<None, None, {Md5(files["src"])}, None>>,
   <<None, None, {Md5(Append(files["src"], 0))}, None>>,
   <<None, None, None, {"text/plain"}>>}

Next ==
  /\ UNCHANGED <<job, mpvars, extvars>>
  /\ \/ \E key \in Keys, a \in UploadArgs :
          UploadObject("src", key, a[1], a[2], a[3], a[4])
     \/ \E key \in Keys : GetObject(key)
     \/ \E key \in Keys : GetObjSize(key)
     \/ \E key \in Keys : Exists(key)
     \/ BucketExists
     \/ \E keys \in KeyLists : DeleteObjects(keys)
     \/ \E key \in Keys : DownloadObject(key, "dst", None, None, FALSE, FALSE, 1)
     \/ \E tag \in Tags : CreateBucket(tag)

Spec == Init /\ [][Next]_vars


\* ------------------------------------------- delete_objects on long key lists
\* One delete_objects call for each length of the key list up to MaxKeys.
MaxKeys == 2001

KeyList(n) == [i \in 1..n |-> i]

InitDel ==
  /\ region = "eu-north1"
  /\ clients = {}
  /\ bucketExists = TRUE
  /\ objects = EmptyFn
  /\ locked = {}
  /\ files = EmptyFn
  /\ last = Done("init", None, "none", None, <<>>, "none")
  /\ hist = EmptyFn
  /\ job = NoJob
  /\ NoMultipart
  /\ NoExt

NextDel ==
  /\ UNCHANGED <<job, mpvars, extvars>>
  /\ \E n \in 0..MaxKeys : last.op = "init" /\ DeleteObjects(KeyList(n))

SpecDel == InitDel /\ [][NextDel]_vars

\* ------------------------------------------------- range-split downloads
\* One object of up to MaxObjLen bytes, and a caller that makes one
\* download_object call with any arguments, or two ranged write_at_offset
\* calls one after the other, into the same destination file, which is
\* absent or holds older bytes.
MaxObjLen == 2

Bits == {0, 1}

ObjContents == UNION {[1..n -> Bits] : n \in 0..MaxObjLen}

Requests ==
  [offset_bytes : Opt(0..MaxObjLen), size_bytes : Opt(0..MaxObjLen),
   write_at_offset : BOOLEAN]

RangedWrites ==
  {q \in Requests : q.offset_bytes # None /\ q.size_bytes # None /\ q.write_at_offset}

Plans == {<<q>> : q \in Requests} \cup {<<q1, q2>> : q1 \in RangedWrites, q2 \in RangedWrites}

InitDL ==
  /\ region \in {"", "eu-north1"}
  /\ clients = {}
  /\ bucketExists = TRUE
  /\ \E b \in ObjContents : objects = [k \in {1} |-> b]
  /\ locked = {}
  /\ files \in {EmptyFn, [p \in {"dst"} |-> <<1, 1, 1>>]}
  /\ last = Done("init", None, "none", None, <<>>, "none")
  /\ hist = EmptyFn
  /\ \E plan \in Plans : job = [todo |-> plan, done |-> <<>>]
  /\ NoMultipart
  /\ NoExt

RunDownload ==
  /\ job.todo # <<>>
  /\ LET q == Head(job.todo) IN
     /\ \E key \in {0, 1}, generate_md5 \in BOOLEAN, blk \in {1, 2} :
          /\ (key = 0 => Len(job.todo) = 1)
          /\ DownloadObject(key, "dst", q.offset_bytes, q.size_bytes,
                            q.write_at_offset, generate_md5, blk)
     /\ job' = [todo |-> Tail(job.todo),
                done |-> Append(job.done, [req |-> q, exc |-> last'.exc])]

NextDL == RunDownload /\ UNCHANGED <<mpvars, extvars>>

SpecDL == InitDL /\ [][NextDL]_vars

\* -------------------------------------------------------- multipart upload
MaxParts == 100

\* bounds: parts sent one by one are numbered up to MaxPartNum; a session
\* may already hold a run of parts that ends up to MaxOver past one page
MaxPartNum == 3
MaxOver == 1

TopPart == MaxParts + MaxOver

UploadId == "u"

MpKey == 1

\* the bytes of the caller's part p
PartBody(p) == <<p>>

\* the completion tag the service reports for a part
ETag(body) == Md5(body)

\* initiate_multipart_upload(dst_object_name)
InitiateMultipartUpload(key) ==
  /\ S3Client
  /\ UNCHANGED <<bucketExists, objects, locked, files, hist, job, cmu, sent>>
  /\ IF ~ClientOk
     THEN /\ last' = Done("initiate_multipart_upload", [key |-> key], "ValueError",
                          None, <<>>, "ValueError")
          /\ UNCHANGED <<mpSession, mpParts>>
     ELSE IF key = 0
     THEN /\ last' = Done("initiate_multipart_upload", [key |-> key], "AssertionError",
                          None, <<>>, "AssertionError")
          /\ UNCHANGED <<mpSession, mpParts>>
     ELSE \E out \in Net :
       LET cause == WireExc(out, IF bucketExists THEN "none"
                                 ELSE "ClientError.NoSuchBucket")
           wire == <<[call |-> "create_multipart_upload", key |-> key]>>
       IN
       IF cause # "none"
       THEN /\ last' = Done("initiate_multipart_upload", [key |-> key], cause, None,
                            wire, cause)
            /\ UNCHANGED <<mpSession, mpParts>>
       ELSE /\ last' = Done("initiate_multipart_upload", [key |-> key], "none",
                            UploadId, wire, "none")
            /\ mpSession' = "open"
            /\ mpParts' = EmptyFn

\* the caller uploads part p of the session through upload_object
SendPart(p) ==
  /\ mpSession = "open"
  /\ cmu.pc = "idle"
  /\ UploadObject(p, MpKey, {p}, {UploadId}, None, None)
  /\ sent' = sent \cup {p}
  /\ UNCHANGED <<job, mpSession, mpParts, cmu>>

\* the upload_part wire call, made on the client itself: the service stores
\* the part under its number, replacing an older part of that number
UploadPartWire(p) ==
  /\ mpSession = "open"
  /\ cmu.pc = "idle"
  /\ mpParts' = Put(mpParts, p, PartBody(p))
  /\ last' = Done("s3_client.upload_part", [key |-> MpKey, part_number |-> {p}],
                  "none", [ETag |-> ETag(PartBody(p))],
                  <<[call |-> "upload_part", key |-> MpKey, part_number |-> p]>>,
                  "none")
  /\ UNCHANGED <<region, clients, bucketExists, objects, locked, files, hist,
                 job, mpSession, cmu, sent>>

\* the service's answer to list_parts(MaxParts, PartNumberMarker): the
\* accepted parts numbered above the marker, in ascending order, at most
\* MaxParts of them
RECURSIVE PartsIn(_, _)
PartsIn(lo, hi) ==
  IF lo > hi THEN <<>>
  ELSE IF lo = hi
  THEN IF lo \in DOMAIN mpParts
       THEN <<[PartNumber |-> lo, ETag |-> ETag(mpParts[lo])]>>
       ELSE <<>>
  ELSE PartsIn(lo, (lo + hi) \div 2) \o PartsIn((lo + hi) \div 2 + 1, hi)

ListParts(marker) ==
  SubSeq(PartsIn(marker + 1, TopPart), 1,
         Min(MaxParts, Len(PartsIn(marker + 1, TopPart))))

\* a marker that stays at the start of the session's parts
MarkerZero(all_parts) == 0

\* PartNumberMarker=len(all_parts)
Marker(all_parts) == Len(all_parts)

\* sorted(all_parts, key=PartNumber): stable, ascending
RECURSIVE SortedIn(_, _, _)
SortedIn(all_parts, lo, hi) ==
  IF lo = hi THEN SelectSeq(all_parts, LAMBDA x : x.PartNumber = lo)
  ELSE SortedIn(all_parts, lo, (lo + hi) \div 2)
         \o SortedIn(all_parts, (lo + hi) \div 2 + 1, hi)

Sorted(all_parts) == SortedIn(all_parts, 1, TopPart)

\* the service's answer to CompleteMultipartUpload: it accepts a non-empty
\* list of accepted parts, each with its tag, in strictly ascending order
Acceptable(list) ==
  /\ mpSession = "open"
  /\ list # <<>>
  /\ \A i \in 1..Len(list) :
       /\ list[i].PartNumber \in DOMAIN mpParts
       /\ list[i].ETag = ETag(mpParts[list[i].PartNumber])
       /\ i > 1 => list[i - 1].PartNumber < list[i].PartNumber

\* the object the service assembles: the listed parts, in the listed order
RECURSIVE AssembleIn(_, _, _)
AssembleIn(list, lo, hi) ==
  IF lo > hi THEN <<>>
  ELSE IF lo = hi THEN mpParts[list[lo].PartNumber]
  ELSE AssembleIn(list, lo, (lo + hi) \div 2)
         \o AssembleIn(list, (lo + hi) \div 2 + 1, hi)

Assemble(list) == AssembleIn(list, 1, Len(list))

\* complete_multipart_upload, call: the client lookup
CompleteStart(key) ==
  /\ cmu.pc = "idle"
  /\ mpSession = "open"
  /\ S3Client
  /\ UNCHANGED <<bucketExists, objects, locked, files, hist, job, mpSession, mpParts,
                 sent>>
  /\ IF ~ClientOk
     THEN /\ last' = Done("complete_multipart_upload", [key |-> key], "ValueError",
                          None, <<>>, "ValueError")
          /\ UNCHANGED cmu
     ELSE /\ cmu' = [pc |-> "list", key |-> key, all_parts |-> <<>>, wire |-> <<>>]
          /\ UNCHANGED last

\* one turn of the while loop: a list_parts call
CompleteList ==
  /\ cmu.pc = "list"
  /\ UNCHANGED <<region, clients, bucketExists, objects, locked, files, hist, job,
                 mpSession, mpParts, sent>>
  /\ \E out \in Net, page \in {ListParts(Marker(cmu.all_parts))} :
       LET marker == Marker(cmu.all_parts)
           wire == Append(cmu.wire, [call |-> "list_parts", marker |-> marker])
           cause == WireExc(out, IF mpSession = "open" THEN "none"
                                 ELSE "ClientError.NoSuchUpload")
       IN
       IF cause # "none"
       THEN /\ last' = Done("complete_multipart_upload", [key |-> cmu.key], cause,
                            None, wire, cause)
            /\ cmu' = NoCmu
       ELSE /\ UNCHANGED last
            /\ cmu' = IF page = <<>>
                      THEN [cmu EXCEPT !.pc = "finalize", !.wire = wire]
                      ELSE [cmu EXCEPT !.all_parts = cmu.all_parts \o page,
                                       !.wire = wire]

\* after the loop: sort, send the finalize request, read the response
CompleteFinalize ==
  /\ cmu.pc = "finalize"
  /\ UNCHANGED <<region, clients, bucketExists, locked, files, hist, job, mpParts,
                 sent>>
  /\ \E out \in Net, list \in {Sorted(cmu.all_parts)} :
       LET wire == Append(cmu.wire, [call |-> "complete_multipart_upload",
                                     parts |-> list])
           cause == WireExc(out, IF Acceptable(list) THEN "none"
                                 ELSE "ClientError.InvalidPart")
       IN
       /\ cmu' = NoCmu
       /\ last' = Done("complete_multipart_upload", [key |-> cmu.key], cause, None,
                       wire, cause)
       /\ IF cause = "none"
          THEN /\ objects' = Put(objects, cmu.key, Assemble(list))
               /\ mpSession' = "completed"
          ELSE UNCHANGED <<objects, mpSession>>

\* A multipart session on one key.  The caller's part p is in the local file
\* p.  The session is not yet initiated, or it is open and the service has
\* accepted a run of parts lo..hi that ends around the size of one page.
PartRuns ==
  {[p \in lo..hi |-> PartBody(p)] : lo \in 1..2, hi \in (MaxParts - 1)..TopPart}

InitMP ==
  /\ region = "eu-north1"
  /\ clients = {}
  /\ bucketExists = TRUE
  /\ objects = EmptyFn
  /\ locked = {}
  /\ files = [p \in 1..MaxPartNum |-> PartBody(p)]
  /\ last = Done("init", None, "none", None, <<>>, "none")
  /\ hist = EmptyFn
  /\ job = NoJob
  /\ cmu = NoCmu
  /\ sent = {}
  /\ \/ mpSession = "none" /\ mpParts = EmptyFn
     \/ mpSession = "open" /\ mpParts \in PartRuns
  /\ NoExt

NextMP ==
  /\ UNCHANGED extvars
  /\ \/ mpSession = "none" /\ InitiateMultipartUpload(MpKey)
     \/ \E p \in 1..MaxPartNum : SendPart(p)
     \/ \E p \in 1..MaxPartNum : UploadPartWire(p)
     \/ CompleteStart(MpKey)
     \/ CompleteList
     \/ CompleteFinalize

SpecMP == InitMP /\ [][NextMP]_vars

\* ------------------------------------------------ ObjectStoreInterface.create
\* A string is the sequence of its characters.
StartsWith(s, p) == Len(s) >= Len(p) /\ SubSeq(s, 1, Len(p)) = p

\* the provider names create() tests for, in the order it tests them, each
\* with the class it constructs
Dispatch ==
  << [prefix |-> <<"a", "w", "s">>, class |-> "S3Interface"],
     [prefix |-> <<"g", "c", "p">>, class |-> "GCSInterface"],
     [prefix |-> <<"a", "z", "u", "r", "e">>, class |-> "AzureBlobInterface"],
     [prefix |-> <<"i", "b", "m", "c", "l", "o", "u", "d">>, class |-> "COSInterface"],
     [prefix |-> <<"h", "d", "f", "s">>, class |-> "HDFSInterface"],
     [prefix |-> <<"s", "c", "p">>, class |-> "SCPInterface"],
     [prefix |-> <<"l", "o", "c", "a", "l">>, class |-> "POSIXInterface"],
     [prefix |-> <<"c", "l", "o", "u", "d", "f", "l", "a", "r", "e">>, class |-> "R2Interface"],
     [prefix |-> <<"n", "e", "b", "i", "u", "s">>, class |-> "NebiusInterface"] >>

\* the if/elif chain: the index of the first branch whose test is true, 0
\* for the else branch
RECURSIVE Branch(_, _)
Branch(region_tag, i) ==
  IF i > Len(Dispatch) THEN 0
  ELSE IF StartsWith(region_tag, Dispatch[i].prefix) THEN i
  ELSE Branch(region_tag, i + 1)

\* bucket.split("/", 1) unpacked into two names: needs a "/" in the bucket
SplitsInTwo(bucket) == \E i \in 1..Len(bucket) : bucket[i] = "/"

Create(region_tag, bucket) ==
  LET args == [region_tag |-> region_tag, bucket |-> bucket]
      i == Branch(region_tag, 1)
  IN
  /\ UNCHANGED <<region, clients, bucketExists, objects, locked, files, hist>>
  /\ last' = IF i = 0
             THEN Done("create", args, "ValueError", None, <<>>, "Invalid region_tag")
             ELSE IF Dispatch[i].class \in {"AzureBlobInterface", "R2Interface"}
                     /\ ~SplitsInTwo(bucket)
             THEN Done("create", args, "ValueError", None, <<>>, "unpack")
             ELSE Done("create", args, "none", Dispatch[i].class, <<>>, "none")

\* bound: a tag is a registered name, or a name cut short by one character,
\* followed by up to MaxPad further letters and then by nothing or by ":r"
MaxPad == 1

RECURSIVE Pad(_)
Pad(n) == IF n = 0 THEN <<>> ELSE <<"x">> \o Pad(n - 1)

Stems ==
  {Dispatch[i].prefix : i \in 1..Len(Dispatch)}
    \cup {SubSeq(Dispatch[i].prefix, 1, Len(Dispatch[i].prefix) - 1) : i \in 1..Len(Dispatch)}
    \cup {<<"m", "a", "d", "e", "-", "u", "p">>}

RegionTags ==
  {stem \o Pad(n) \o tail : stem \in Stems, n \in 0..MaxPad, tail \in {<<>>, <<":", "r">>}}

Buckets == {<<"b">>, <<"a", "/", "b">>}

InitCreate ==
  /\ region = ""
  /\ clients = {}
  /\ bucketExists = TRUE
  /\ objects = EmptyFn
  /\ locked = {}
  /\ files = EmptyFn
  /\ last = Done("init", None, "none", None, <<>>, "none")
  /\ hist = EmptyFn
  /\ job = NoJob
  /\ NoMultipart
  /\ NoExt

NextCreate ==
  /\ UNCHANGED <<job, mpvars, extvars>>
  /\ \E region_tag \in RegionTags, bucket \in Buckets : Create(region_tag, bucket)

SpecCreate == InitCreate /\ [][NextCreate]_vars

\* ---------------------------------------------------------------- list_objects
\* the name of key k: names sort as the key numbers do
KeyName(k) == IF k <= 2 THEN <<"a", k>> ELSE <<"b", k>>

\* bounds: the service returns up to MaxPageLen keys in one page of a
\* listing; a bucket holds up to MaxListKeys objects; MaxIters generators
MaxPageLen == 2
MaxListKeys == 3
MaxIters == 2

\* _s3_client(region) with the region given: self._region is not consulted
S3ClientAt(r) ==
  /\ region' = region
  /\ clients' = IF r \in NEBIUS_REGIONS THEN clients \cup {r} ELSE clients

\* the keys of S in ascending order
RECURSIVE Ascending(_)
Ascending(S) ==
  IF S = {} THEN <<>>
  ELSE LET k == CHOOSE x \in S : \A y \in S : x <= y IN <<k>> \o Ascending(S \ {k})

\* the keys a list_objects_v2 request continues with: those after the token
KeysAfterOrAt(objs, prefix, token) ==
  {k \in DOMAIN objs : StartsWith(KeyName(k), prefix) /\ k >= token}

KeysAfter(objs, prefix, token) ==
  {k \in DOMAIN objs : StartsWith(KeyName(k), prefix) /\ k > token}

\* the service's answer to one list_objects_v2 request of the paginator:
\* the first keys after the continuation token, and whether more follow
ListPage(objs, prefix, token) ==
  LET all == Ascending(KeysAfter(objs, prefix, token)) IN
  [keys |-> SubSeq(all, 1, Min(MaxPageLen, Len(all))),
   truncated |-> Len(all) > MaxPageLen]

\* S3Object(obj["Key"], ..., size=obj["Size"], last_modified=...,
\* mime_type=obj.get("ContentType")): a listing entry carries no ContentType
S3Object(objs, k) ==
  [key |-> k, size |-> {Len(objs[k])}, last_modified |-> {1}, mime_type |-> None]

\* ObjectStoreObject.exists
ObjectExists(rec) == rec.size # None /\ rec.last_modified # None

RECURSIVE PageRecords(_, _)
PageRecords(objs, keys) ==
  IF keys = <<>> THEN <<>>
  ELSE <<S3Object(objs, Head(keys))>> \o PageRecords(objs, Tail(keys))

\* list_objects(prefix, region): the call returns a generator; none of its
\* body has run yet
ListObjects(prefix, reg) ==
  /\ Len(iters) < MaxIters
  /\ iters' = Append(iters, [prefix |-> prefix, region |-> reg, pc |-> "new",
                             buf |-> <<>>, token |-> 0, more |-> TRUE,
                             yielded |-> <<>>, wire |-> <<>>])
  /\ last' = Done("list_objects", [prefix |-> prefix, region |-> reg], "none",
                  Len(iters) + 1, <<>>, "none")
  /\ UNCHANGED <<region, clients, bucketExists, objects, locked, files, hist>>

\* next() on generator i: run the body up to the next yield, to its end
\* (StopIteration) or to an exception, which closes the generator
IterNext(i) ==
  LET it == iters[i]
      args == [it |-> i]
      valid == (IF it.region = None THEN aws_region ELSE TheVal(it.region))
                 \in NEBIUS_REGIONS
  IN
  /\ UNCHANGED <<bucketExists, objects, locked, files, hist>>
  /\ IF it.pc = "new" THEN (IF it.region = None THEN S3Client
                            ELSE S3ClientAt(TheVal(it.region)))
     ELSE UNCHANGED <<region, clients>>
  /\ IF it.pc = "closed"
     THEN /\ last' = Done("next", args, "StopIteration", None, <<>>, "none")
          /\ UNCHANGED iters
     ELSE IF it.pc = "new" /\ ~valid
     THEN /\ last' = Done("next", args, "ValueError", None, <<>>, "ValueError")
          /\ iters' = [iters EXCEPT ![i].pc = "closed"]
     ELSE IF it.buf # <<>>
     THEN /\ last' = Done("next", args, "none", Head(it.buf), <<>>, "none")
          /\ iters' = [iters EXCEPT ![i].pc = "open", ![i].buf = Tail(it.buf),
                                    ![i].yielded = Append(it.yielded, Head(it.buf))]
     ELSE IF ~it.more
     THEN /\ last' = Done("next", args, "StopIteration", None, <<>>, "none")
          /\ iters' = [iters EXCEPT ![i].pc = "closed"]
     ELSE \E out \in Net :
       LET cause == WireExc(out, IF bucketExists THEN "none"
                                 ELSE "ClientError.NoSuchBucket")
           page == ListPage(objects, it.prefix, it.token)
           recs == PageRecords(objects, page.keys)
           wire == <<[call |-> "list_objects_v2", prefix |-> it.prefix,
                      token |-> it.token]>>
       IN
       IF cause # "none"
       THEN /\ last' = Done("next", args, cause, None, wire, cause)
            /\ iters' = [iters EXCEPT ![i].pc = "closed",
                                      ![i].wire = it.wire \o wire]
       ELSE IF recs = <<>>
       THEN /\ last' = Done("next", args, "StopIteration", None, wire, "none")
            /\ iters' = [iters EXCEPT ![i].pc = "closed", ![i].more = FALSE,
                                      ![i].wire = it.wire \o wire]
       ELSE /\ last' = Done("next", args, "none", Head(recs), wire, "none")
            /\ iters' = [iters EXCEPT ![i].pc = "open", ![i].buf = Tail(recs),
                                      ![i].token = page.keys[Len(page.keys)],
                                      ![i].more = page.truncated,
                                      ![i].yielded = Append(it.yielded, Head(recs)),
                                      ![i].wire = it.wire \o wire]

\* A bucket that nobody modifies, holding any of the keys 1..MaxListKeys,
\* and a caller that lists it, with any prefix, through up to MaxIters
\* generators consumed in any interleaving.
Prefixes == {<<>>, <<"a">>, <<"c">>}

Buckets3 == {[k \in S |-> <<k % 2>>] : S \in SUBSET (1..MaxListKeys)}

InitList ==
  /\ region \in {"", "eu-west1"}
  /\ clients = {}
  /\ bucketExists = TRUE
  /\ objects \in Buckets3
  /\ locked = {}
  /\ files = EmptyFn
  /\ last = Done("init", None, "none", None, <<>>, "none")
  /\ hist = EmptyFn
  /\ job = NoJob
  /\ NoMultipart
  /\ NoExt

NextList ==
  /\ UNCHANGED <<job, mpvars, cur, peer, built, meta, stamps, auth, threads, vm, prov>>
  /\ \/ \E prefix \in Prefixes, reg \in Opt({"eu-north1"}) : ListObjects(prefix, reg)
     \/ \E i \in 1..Len(iters) : IterNext(i)

SpecList == InitList /\ [][NextList]_vars

\* ---------------------------------------------------------------- delete_bucket
\* list(self.list_objects()): a generator consumed to its end, page after
\* page; the keys yielded and the wire calls made
RECURSIVE ListAll(_, _, _)
ListAll(objs, prefix, token) ==
  LET page == ListPage(objs, prefix, token)
      call == [call |-> "list_objects_v2", prefix |-> prefix, token |-> token]
  IN IF page.truncated
     THEN LET rest == ListAll(objs, prefix, page.keys[Len(page.keys)]) IN
          [keys |-> page.keys \o rest.keys, wire |-> <<call>> \o rest.wire]
     ELSE [keys |-> page.keys, wire |-> <<call>>]

\* delete_bucket: list the bucket and delete what is listed, in batches of
\* 1000 (a bucket of fewer objects is listed to its end before the one
\* delete_objects call), assert that a new listing is empty, delete the bucket
DeleteBucket ==
  LET dc == [call |-> "delete_bucket"]
      served == IF bucketExists THEN "none" ELSE "ClientError.NoSuchBucket"
      l1 == ListAll(objects, <<>>, 0)
  IN
  /\ S3Client
  /\ UNCHANGED <<locked, files>>
  /\ IF ~ClientOk
     THEN /\ last' = Done("delete_bucket", None, "ValueError", None, <<>>, "ValueError")
          /\ UNCHANGED <<bucketExists, objects, hist>>
     ELSE \E out1 \in Net :
       IF WireExc(out1, served) # "none"
       THEN /\ last' = Done("delete_bucket", None, WireExc(out1, served), None,
                            <<Head(l1.wire)>>, WireExc(out1, served))
            /\ UNCHANGED <<bucketExists, objects, hist>>
       ELSE \E fail \in Fails((Len(l1.keys) + DeleteBatch - 1) \div DeleteBatch) :
         \E r \in {DeleteLoop(l1.keys, objects, <<>>, fail)} :
         /\ objects' = r.objs
         /\ hist' = Drop(hist, Range(l1.keys))
         /\ IF r.exc # "none"
            THEN /\ last' = Done("delete_bucket", None, r.exc, None, l1.wire \o r.wire,
                                 r.exc)
                 /\ UNCHANGED bucketExists
            ELSE \E out2 \in Net :
              LET l2 == ListAll(r.objs, <<>>, 0)
                  w2 == l1.wire \o r.wire \o l2.wire
              IN
              IF WireExc(out2, "none") # "none"
              THEN /\ last' = Done("delete_bucket", None, WireExc(out2, "none"), None,
                                   l1.wire \o r.wire \o <<Head(l2.wire)>>,
                                   WireExc(out2, "none"))
                   /\ UNCHANGED bucketExists
              ELSE IF l2.keys # <<>>
              THEN \* the assertion fails; its message lists the bucket again
                   /\ last' = Done("delete_bucket", None, "AssertionError", None,
                                   w2 \o l2.wire, "AssertionError")
                   /\ UNCHANGED bucketExists
              ELSE \E out3 \in Net :
                /\ last' = Done("delete_bucket", None, WireExc(out3, "none"), None,
                                Append(w2, dc), WireExc(out3, "none"))
                /\ bucketExists' = (WireExc(out3, "none") # "none")

\* A bucket, there or not, holding any of the keys 1..MaxListKeys, some of
\* which the service refuses to delete.
InitBucket ==
  /\ region \in {"", "eu-west1"}
  /\ clients = {}
  /\ bucketExists \in BOOLEAN
  /\ objects \in Buckets3
  /\ locked \in SUBSET (1..MaxListKeys)
  /\ files = EmptyFn
  /\ last = Done("init", None, "none", None, <<>>, "none")
  /\ hist = EmptyFn
  /\ job = NoJob
  /\ NoMultipart
  /\ NoExt

NextBucket ==
  /\ UNCHANGED <<job, mpvars, extvars>>
  /\ DeleteBucket

SpecBucket == InitBucket /\ [][NextBucket]_vars

\* ------------------------------------------------------------- the client cache
\* Two backend instances.  region and clients are the fields of the instance
\* the caller is using (cur); peer holds the fields of the other one.
\* if region not in self.NEBIUS_REGIONS: raise ValueError
RegionOkAny(r) == TRUE

RegionOk(r) == r \in NEBIUS_REGIONS

\* if region not in self._cached_s3_clients: construct and store
CachedNever(r) == FALSE

Cached(r) == r \in clients

\* the client self._cached_s3_clients[region] holds: the one stored last
ClientOf(log, inst, r) ==
  CHOOSE i \in 1..Len(log) :
    /\ log[i].inst = inst /\ log[i].region = r
    /\ \A j \in (i + 1)..Len(log) : ~(log[j].inst = inst /\ log[j].region = r)

\* what a call of _s3_client for region r adds to the clients constructed
Construct(r) ==
  IF RegionOk(r) /\ ~Cached(r)
  THEN Append(built, [inst |-> cur, region |-> r, endpoint_url |-> EndpointUrl(r)])
  ELSE built

\* _s3_client(region) called on the instance in use
S3ClientCall(arg) ==
  LET r == IF arg = None THEN aws_region ELSE TheVal(arg)
      args == [inst |-> cur, region |-> arg]
  IN
  /\ IF arg = None THEN S3Client ELSE S3ClientAt(r)
  /\ built' = Construct(r)
  /\ last' = IF RegionOk(r)
             THEN Done("_s3_client", args, "none", ClientOf(built', cur, r), <<>>, "none")
             ELSE Done("_s3_client", args, "ValueError", None, <<>>, "ValueError")
  /\ UNCHANGED <<bucketExists, objects, locked, files, hist, cur, peer>>

\* create_bucket(region_tag) called on the instance in use
CreateBucketCall(tag) ==
  /\ CreateBucket(tag)
  /\ built' = Construct(TagRegion(tag))
  /\ UNCHANGED <<cur, peer>>

\* region_tag() called on the instance in use: "nebius:" + self.aws_region,
\* as the sequence of the tag's fields
RegionTagCall ==
  /\ region' = aws_region
  /\ last' = Done("region_tag", [inst |-> cur], "none", <<"nebius", aws_region>>, <<>>,
                  "none")
  /\ UNCHANGED <<clients, bucketExists, objects, locked, files, hist, cur, peer, built>>

\* the caller turns to the other instance
SwitchInstance ==
  /\ cur' = 3 - cur
  /\ region' = peer.region
  /\ clients' = peer.clients
  /\ peer' = [region |-> region, clients |-> clients]
  /\ last' = Done("switch", [inst |-> cur'], "none", None, <<>>, "none")
  /\ UNCHANGED <<bucketExists, objects, locked, files, hist, built>>

InitCache ==
  /\ region \in {""} \cup Regions
  /\ clients = {}
  /\ bucketExists \in BOOLEAN
  /\ objects = EmptyFn
  /\ locked = {}
  /\ files = EmptyFn
  /\ last = Done("init", None, "none", None, <<>>, "none")
  /\ hist = EmptyFn
  /\ job = NoJob
  /\ NoMultipart
  /\ NoList
  /\ cur = 1
  /\ \E r \in {""} \cup Regions : peer = [region |-> r, clients |-> {}]
  /\ built = <<>>
  /\ NoMeta
  /\ NoAuth
  /\ NoThreads
  /\ NoVm
  /\ NoProv

NextCache ==
  /\ UNCHANGED <<job, mpvars, iters, meta, stamps, auth, threads, vm, prov>>
  /\ \/ \E arg \in Opt(Regions) : S3ClientCall(arg)
     \/ \E tag \in Tags : CreateBucketCall(tag)
     \/ RegionTagCall
     \/ SwitchInstance

SpecCache == InitCache /\ [][NextCache]_vars

\* ------------------------------------------------------------- object metadata
\* bound: the service stamps up to MaxStamp writes
MaxStamp == 2

\* the head_object response for a key of the bucket
HeadObject(key) ==
  [ContentLength |-> Len(objects[key]),
   LastModified |-> IF key \in DOMAIN stamps THEN stamps[key] ELSE 0,
   ContentType |-> "binary/octet-stream"]

\* get_obj_metadata without its except clause
MetadataCatchNothing(cause) == cause

\* except botocore_exceptions.ClientError: raise NoSuchObjectException
MetadataCatch(cause) ==
  IF cause \in {"ClientError.NoSuchKey", "ClientError.NoSuchBucket",
                "ClientError.AccessDenied"}
  THEN "NoSuchObjectException" ELSE cause

\* a getter built on get_obj_metadata (lru_cache): a key whose metadata was
\* fetched is answered from the cache, without a client lookup or a wire
\* call; an exception is not cached
CachedGetter(op, key, field) ==
  /\ UNCHANGED <<bucketExists, objects, locked, files, hist, stamps>>
  /\ IF key \in DOMAIN meta
     THEN /\ last' = Done(op, [key |-> key], "none", meta[key][field], <<>>, "none")
          /\ UNCHANGED <<region, clients, meta>>
     ELSE /\ S3Client
          /\ IF ~ClientOk
             THEN /\ last' = Done(op, [key |-> key], "ValueError", None, <<>>,
                                  "ValueError")
                  /\ UNCHANGED meta
             ELSE \E out \in Net :
               LET cause == WireExc(out, ObjectExc(key))
                   wire == <<[call |-> "head_object", key |-> key]>>
               IN
               IF cause # "none"
               THEN /\ last' = Done(op, [key |-> key], MetadataCatch(cause), None,
                                    wire, cause)
                    /\ UNCHANGED meta
               ELSE /\ last' = Done(op, [key |-> key], "none",
                                    HeadObject(key)[field], wire, "none")
                    /\ meta' = Put(meta, key, HeadObject(key))

GetObjLastModified(key) == CachedGetter("get_obj_last_modified", key, "LastModified")

GetObjMimeType(key) == CachedGetter("get_obj_mime_type", key, "ContentType")

\* s3_client.put_object called on the client itself, as the region test does
PutObjectWire(key, data) ==
  /\ key \in DOMAIN stamps => stamps[key] < MaxStamp
  /\ S3Client
  /\ UNCHANGED <<bucketExists, locked, files, hist, meta>>
  /\ IF ~ClientOk
     THEN /\ last' = Done("s3_client.put_object", [key |-> key], "ValueError", None,
                          <<>>, "ValueError")
          /\ UNCHANGED <<objects, stamps>>
     ELSE \E out \in Net :
       LET cause == WireExc(out, IF bucketExists THEN "none"
                                 ELSE "ClientError.NoSuchBucket")
       IN
       /\ last' = Done("s3_client.put_object", [key |-> key], cause, None,
                       <<[call |-> "put_object", key |-> key, body |-> data]>>, cause)
       /\ objects' = IF cause = "none" THEN Put(objects, key, data) ELSE objects
       /\ stamps' = IF cause = "none"
                    THEN Put(stamps, key, 1 + (IF key \in DOMAIN stamps
                                               THEN stamps[key] ELSE 0))
                    ELSE stamps

\* One backend object whose bucket is written and emptied while metadata is
\* asked for.
InitMeta ==
  /\ region \in {"", "eu-west1"}
  /\ clients = {}
  /\ bucketExists \in BOOLEAN
  /\ objects = EmptyFn
  /\ locked = {}
  /\ files = EmptyFn
  /\ last = Done("init", None, "none", None, <<>>, "none")
  /\ hist = EmptyFn
  /\ job = NoJob
  /\ NoMultipart
  /\ NoExt

NextMeta ==
  /\ UNCHANGED <<job, mpvars, iters, cur, peer, built, auth, threads, vm, prov>>
  /\ \/ \E key \in Keys, data \in {<<>>, <<1>>} : PutObjectWire(key, data)
     \/ \E key \in Keys : DeleteObjects(<<key>>) /\ UNCHANGED <<meta, stamps>>
     \/ \E key \in Keys : GetObjSize(key) /\ UNCHANGED <<meta, stamps>>
     \/ \E key \in Keys : GetObjLastModified(key)
     \/ \E key \in Keys : GetObjMimeType(key)

SpecMeta == InitMeta /\ [][NextMeta]_vars

\* -------------------------------------------------------- NebiusAuthentication
\* A credentials dictionary is a function from the keys it holds to their
\* values; "" is a value that is there and false (empty string, None).
\* d.get(k) is truthy
GetTruthy(d, k) == k \in DOMAIN d /\ d[k] # ""

\* the credentials files on disk, parsed
CredentialFiles ==
  [f \in {"old.json", "bad.json", "new.json", "partial.json"} |->
     IF f = "old.json"
     THEN [service_account_id |-> "sa", publickey_id |-> "pk", private_key |-> "key"]
     ELSE IF f = "bad.json"
     THEN [service_account_id |-> "sa", publickey_id |-> "pk"]
     ELSE IF f = "new.json"
     THEN ("id" :> "sa") @@
          ("subject-credentials" :>
             [service_account_id |-> "sa", public_key_id |-> "pk", private_key |-> "key"])
     ELSE ("id" :> "sa") @@ ("subject-credentials" :> [service_account_id |-> "sa"])]

CredentialsDicts ==
  UNION {[D -> {"", "v"}] :
           D \in SUBSET {"service_account_id", "publickey_id", "private_key",
                         "access_key_id", "secret_access_key"}}

CredentialsFileArgs ==
  {EmptyFn} \cup
  {[k \in {"credentials_file"} |-> f] :
     f \in {"", "nonexistent.json"} \cup DOMAIN CredentialFiles}

\* if credentials.get("access_key_id") and credentials.get("secret_access_key")
S3OnlyMode(c) == GetTruthy(c, "access_key_id") /\ GetTruthy(c, "secret_access_key")

\* a validation that asks for the file and the three fields together
SdkCredentialsBoth(c) ==
  /\ GetTruthy(c, "credentials_file")
  /\ {"service_account_id", "publickey_id", "private_key"} \subseteq DOMAIN c

\* credentials.get("credentials_file") or the three fields are in credentials
SdkCredentials(c) ==
  \/ GetTruthy(c, "credentials_file")
  \/ {"service_account_id", "publickey_id", "private_key"} \subseteq DOMAIN c

\* NebiusAuthentication(credentials)
NewAuthentication(c) ==
  /\ ~auth.made
  /\ UNCHANGED <<region, clients, bucketExists, objects, locked, files, hist>>
  /\ IF ~auth.have_sdk
     THEN /\ last' = Done("NebiusAuthentication", c, "ImportError", None, <<>>,
                          "ImportError")
          /\ UNCHANGED auth
     ELSE IF S3OnlyMode(c)
     THEN /\ auth' = [auth EXCEPT !.made = TRUE, !.credentials = c,
                                  !.s3_only_mode = TRUE]
          /\ last' = Done("NebiusAuthentication", c, "none", None, <<>>, "none")
     ELSE IF ~SdkCredentials(c)
     THEN /\ last' = Done("NebiusAuthentication", c, "ValueError", None, <<>>,
                          "Either credentials_file or service_account_id, publickey_id, and private_key must be provided")
          /\ UNCHANGED auth
     ELSE /\ auth' = [auth EXCEPT !.made = TRUE, !.credentials = c]
          /\ last' = Done("NebiusAuthentication", c, "none", None, <<>>, "none")

\* cleanup(): run the cleanup tasks (each unlinks one key file; a task that
\* raises is logged), forget them, drop the SDK, and remove the private key
\* file if its path is set and the file exists.  task_ok, unlink_ok: whether
\* the file system lets the tasks and the final os.unlink remove the file.
CleanupOf(a, task_ok, unlink_ok) ==
  LET disk1 == IF task_ok THEN a.disk \ Range(a.cleanup_tasks) ELSE a.disk
      there == a.private_key_path # 0 /\ a.private_key_path \in disk1
  IN [a EXCEPT !.cleanup_tasks = <<>>,
               !.sdk = "None",
               !.disk = IF there /\ unlink_ok THEN disk1 \ {a.private_key_path}
                        ELSE disk1,
               !.private_key_path = IF there /\ unlink_ok THEN 0
                                    ELSE a.private_key_path]

\* whether an os.unlink of that cleanup raised
UnlinkFailed(a, task_ok, unlink_ok) ==
  \/ ~task_ok /\ a.cleanup_tasks # <<>>
  \/ /\ ~unlink_ok
     /\ a.private_key_path # 0
     /\ a.private_key_path \in (IF task_ok THEN a.disk \ Range(a.cleanup_tasks)
                                ELSE a.disk)

Cleanup ==
  /\ auth.made
  /\ UNCHANGED <<region, clients, bucketExists, objects, locked, files, hist>>
  /\ \E task_ok \in BOOLEAN, unlink_ok \in BOOLEAN :
       /\ auth' = CleanupOf(auth, task_ok, unlink_ok)
       /\ last' = Done("cleanup", None, "none", None, <<>>,
                       IF UnlinkFailed(auth, task_ok, unlink_ok) THEN "OSError"
                       ELSE "none")

\* bound: initialize creates up to MaxKeyFiles temporary key files
MaxKeyFiles == 2

\* _convert_credentials_format: the old format needs all three fields
ConvertOk(data) ==
  /\ GetTruthy(data, "service_account_id")
  /\ GetTruthy(data, "publickey_id")
  /\ GetTruthy(data, "private_key")

ConvertCredentialsFormat(data) ==
  ("id" :> data["service_account_id"]) @@
  ("subject-credentials" :>
     [id |-> data["service_account_id"],
      service_account_id |-> data["service_account_id"],
      public_key_id |-> data["publickey_id"],
      private_key |-> data["private_key"],
      created_at |-> "2024-01-01T00:00:00.000000Z",
      key_algorithm |-> "RSA_2048"])

\* initialize() up to the creation of the key file: "ok", or what it raises
ReadCredentials(c) ==
  IF ~GetTruthy(c, "credentials_file") THEN "UnboundLocalError"
  ELSE IF c["credentials_file"] \notin DOMAIN CredentialFiles THEN "FileNotFoundError"
  ELSE LET data == CredentialFiles[c["credentials_file"]]
           needs_conversion == "id" \notin DOMAIN data
                                 \/ "subject-credentials" \notin DOMAIN data
       IN IF needs_conversion /\ ~ConvertOk(data) THEN "ValueError"
          ELSE LET creds_data == IF needs_conversion THEN ConvertCredentialsFormat(data)
                                 ELSE data
                   subject_creds == creds_data["subject-credentials"]
               IN IF {"service_account_id", "public_key_id", "private_key"}
                       \subseteq DOMAIN subject_creds
                  THEN "ok" ELSE "ValueError"

\* how SDK(...) and the whoami call end
SdkOutcomes == {"ok", "unexpected", "SDK raises", "anonymous", "timeout", "RequestError"}

\* _create_private_key_file: a fresh temporary file and a task that unlinks it
CreatePrivateKeyFile(a) ==
  [a EXCEPT !.nkey = a.nkey + 1,
            !.disk = a.disk \cup {a.nkey + 1},
            !.cleanup_tasks = Append(a.cleanup_tasks, a.nkey + 1),
            !.private_key_path = a.nkey + 1]

\* initialize()
Initialize ==
  /\ auth.made
  /\ auth.nkey < MaxKeyFiles
  /\ UNCHANGED <<region, clients, bucketExists, objects, locked, files, hist>>
  /\ IF auth.s3_only_mode \/ auth.sdk # "None"
     THEN /\ last' = Done("initialize", None, "none", None, <<>>, "none")
          /\ UNCHANGED auth
     ELSE \E task_ok \in BOOLEAN, unlink_ok \in BOOLEAN :
       IF ReadCredentials(auth.credentials) # "ok"
       THEN /\ auth' = CleanupOf(auth, task_ok, unlink_ok)
            /\ last' = Done("initialize", None, "ValueError", None, <<>>,
                            ReadCredentials(auth.credentials))
       ELSE \E out \in SdkOutcomes :
         LET keyed == CreatePrivateKeyFile(auth) IN
         IF out \in {"ok", "unexpected"}
         THEN /\ auth' = [keyed EXCEPT !.sdk = "SDK"]
              /\ last' = Done("initialize", None, "none", None, <<"whoami">>, "none")
         ELSE /\ auth' = CleanupOf(keyed, task_ok, unlink_ok)
              /\ last' = Done("initialize", None, "ValueError", None,
                              IF out = "SDK raises" THEN <<>> ELSE <<"whoami">>, out)

\* an SDK operation through the sdk property: auth.sdk.whoami()
SdkWhoami ==
  /\ auth.made
  /\ UNCHANGED <<region, clients, bucketExists, objects, locked, files, hist, auth>>
  /\ last' = IF auth.s3_only_mode
             THEN Done("sdk.whoami", None, "ValueError", None, <<>>, "ValueError")
             ELSE IF auth.sdk = "None"
             THEN Done("sdk.whoami", None, "AttributeError", None, <<>>, "AttributeError")
             ELSE Done("sdk.whoami", None, "none", "profile", <<"whoami">>, "none")

\* get_service_client(client_class)
GetServiceClient ==
  /\ auth.made
  /\ UNCHANGED <<region, clients, bucketExists, objects, locked, files, hist, auth>>
  /\ last' = IF auth.sdk = "None"
             THEN Done("get_service_client", None, "RuntimeError", None, <<>>,
                       "RuntimeError")
             ELSE Done("get_service_client", None, "none", "client", <<>>, "none")

InitAuth ==
  /\ region = ""
  /\ clients = {}
  /\ bucketExists = TRUE
  /\ objects = EmptyFn
  /\ locked = {}
  /\ files = EmptyFn
  /\ last = Done("init", None, "none", None, <<>>, "none")
  /\ hist = EmptyFn
  /\ job = NoJob
  /\ NoMultipart
  /\ NoList
  /\ NoPeer
  /\ NoMeta
  /\ \E have_sdk \in BOOLEAN : auth = NoAuthObject(have_sdk)
  /\ NoThreads
  /\ NoVm
  /\ NoProv

NextAuth ==
  /\ UNCHANGED <<job, mpvars, iters, cur, peer, built, meta, stamps, threads, vm, prov>>
  /\ \/ \E a \in CredentialsFileArgs, b \in CredentialsDicts : NewAuthentication(a @@ b)
     \/ Initialize
     \/ Cleanup
     \/ SdkWhoami
     \/ GetServiceClient

SpecAuth == InitAuth /\ [][NextAuth]_vars

\* ------------------------------------------- concurrent download_object calls
\* One thread per range of a partition of the object, all writing the same
\* destination file with write_at_offset.  A thread is at "start", has the
\* response ("fetched"), has made sure the file exists ("created"), holds the
\* file open at its own position ("open"), or is over ("returned", "raised").
\* the ranges [a, b) between neighbouring points of {0, n} and the cuts
RangesOf(n, cuts) ==
  LET pts == {0, n} \cup cuts IN
  {<<a, b>> \in pts \X pts : a < b /\ ~\E c \in pts : a < c /\ c < b}

Partitions(n) == {RangesOf(n, cuts) : cuts \in SUBSET (1..(n - 1))}

\* the thread that downloads range rg = <<a, b>>
DlThread(rg) ==
  [pc |-> "start", offset_bytes |-> rg[1], size_bytes |-> rg[2] - rg[1],
   body |-> <<>>, pos |-> 0, wire |-> <<>>]

DlArgs(t) ==
  [key |-> 1, path |-> "dst", offset_bytes |-> {threads[t].offset_bytes},
   size_bytes |-> {threads[t].size_bytes}, write_at_offset |-> TRUE,
   generate_md5 |-> FALSE]

\* s3_client = self._s3_client(); the asserts; response = s3_client.get_object(**args)
DlFetch(t) ==
  LET th == threads[t]
      range == RangeHeader({th.offset_bytes}, {th.size_bytes})
      wire == <<[call |-> "get_object", key |-> 1, range |-> range]>>
  IN
  /\ th.pc = "start"
  /\ S3Client
  /\ UNCHANGED <<bucketExists, objects, locked, hist, files>>
  /\ \E out \in Net :
       LET served == IF ObjectExc(1) # "none" THEN ObjectExc(1)
                     ELSE RangeExc(objects[1], range)
           cause == WireExc(out, served)
       IN
       IF cause # "none"
       THEN /\ threads' = [threads EXCEPT ![t].pc = "raised", ![t].wire = wire]
            /\ last' = Done("download_object", DlArgs(t), cause, None, wire, cause)
       ELSE /\ threads' = [threads EXCEPT ![t].pc = "fetched", ![t].wire = wire,
                                          ![t].body = RangeBody(objects[1], range)]
            /\ UNCHANGED last

\* if not os.path.exists(dst_file_path): open(dst_file_path, "a").close()
DlCreate(t) ==
  /\ threads[t].pc = "fetched"
  /\ files' = IF "dst" \in DOMAIN files THEN files ELSE Put(files, "dst", <<>>)
  /\ threads' = [threads EXCEPT ![t].pc = "created"]
  /\ UNCHANGED <<region, clients, bucketExists, objects, locked, hist, last>>

\* with open(dst_file_path, "wb+") as f: f.seek(offset_bytes)
DlOpen(t) ==
  /\ threads[t].pc = "created"
  /\ files' = Put(files, "dst",
                  OpenForWrite(IF "dst" \in DOMAIN files THEN files["dst"] ELSE <<>>,
                               TRUE))
  /\ threads' = [threads EXCEPT ![t].pc = "open", ![t].pos = threads[t].offset_bytes]
  /\ UNCHANGED <<region, clients, bucketExists, objects, locked, hist, last>>

\* one round of the loop: b = read(write_block_size); f.write(b) at the
\* thread's own file position; an empty read ends the loop and the call
DlWrite(t, blk) ==
  LET th == threads[t]
      b == SubSeq(th.body, 1, Min(blk, Len(th.body)))
  IN
  /\ th.pc = "open"
  /\ UNCHANGED <<region, clients, bucketExists, objects, locked, hist>>
  /\ IF b = <<>>
     THEN /\ threads' = [threads EXCEPT ![t].pc = "returned"]
          /\ last' = Done("download_object", DlArgs(t), "none",
                          [mime_type |-> "binary/octet-stream", md5 |-> None],
                          th.wire, "none")
          /\ UNCHANGED files
     ELSE /\ files' = Put(files, "dst", WriteAt(files["dst"], th.pos, b))
          /\ threads' = [threads EXCEPT ![t].pos = th.pos + Len(b),
                                        ![t].body = SubSeq(th.body, Len(b) + 1,
                                                           Len(th.body))]
          /\ UNCHANGED last

InitCDL ==
  /\ region \in {"", "eu-north1"}
  /\ clients = {}
  /\ bucketExists = TRUE
  /\ \E b \in ObjContents \ {<<>>} : objects = [k \in {1} |-> b]
  /\ locked = {}
  /\ files \in {EmptyFn, [p \in {"dst"} |-> <<1, 1, 1>>]}
  /\ last = Done("init", None, "none", None, <<>>, "none")
  /\ hist = EmptyFn
  /\ job = NoJob
  /\ NoMultipart
  /\ NoList
  /\ NoPeer
  /\ NoMeta
  /\ NoAuth
  /\ NoVm
  /\ NoProv
  /\ \E P \in Partitions(Len(objects[1])) : threads = [rg \in P |-> DlThread(rg)]

NextCDL ==
  /\ UNCHANGED <<job, mpvars, iters, cur, peer, built, meta, stamps, auth, vm, prov>>
  /\ \E t \in DOMAIN threads :
       \/ DlFetch(t)
       \/ DlCreate(t)
       \/ DlOpen(t)
       \/ \E blk \in {1, 2} : DlWrite(t, blk)

SpecCDL == InitCDL /\ [][NextCDL]_vars

\* --------------------------------------------- concurrent _s3_client calls
\* MaxThreads threads call _s3_client on one backend object whose cache is
\* empty.  A thread is at "start", has found the region missing from the
\* cache ("build"), has constructed a client ("store"), is about to read the
\* cache ("read"), or is over ("returned", "raised").  built logs the
\* constructions; a client is named by its position in built.
MaxThreads == 2

ClThread(arg) ==
  [pc |-> "start", arg |-> arg, region |-> "", mine |-> 0, stored |-> 0, ret |-> 0]

\* the threads that have stored a client for region r
Stored(r) == {t \in DOMAIN threads : threads[t].region = r /\ threads[t].stored > 0}

\* self._cached_s3_clients[region]: what was stored last
CacheValue(r) ==
  LET t == CHOOSE t \in Stored(r) :
             \A u \in Stored(r) : threads[u].stored <= threads[t].stored
  IN threads[t].mine

\* region = region if region is not None else self.aws_region; the two tests
ClCheck(t) ==
  LET th == threads[t]
      r == IF th.arg = None THEN aws_region ELSE TheVal(th.arg)
  IN
  /\ th.pc = "start"
  /\ region' = IF th.arg = None THEN aws_region ELSE region
  /\ UNCHANGED <<clients, built, bucketExists, objects, locked, files, hist>>
  /\ IF ~RegionOk(r)
     THEN /\ threads' = [threads EXCEPT ![t].pc = "raised", ![t].region = r]
          /\ last' = Done("_s3_client", [thread |-> t, region |-> th.arg], "ValueError",
                          None, <<>>, "ValueError")
     ELSE /\ threads' = [threads EXCEPT ![t].region = r,
                                        ![t].pc = IF Cached(r) THEN "read" ELSE "build"]
          /\ UNCHANGED last

\* self.auth.get_boto3_client("s3", region, endpoint_url=..., config=...)
ClBuild(t) ==
  /\ threads[t].pc = "build"
  /\ built' = Append(built, [inst |-> cur, region |-> threads[t].region,
                             endpoint_url |-> EndpointUrl(threads[t].region)])
  /\ threads' = [threads EXCEPT ![t].pc = "store", ![t].mine = Len(built')]
  /\ UNCHANGED <<region, clients, bucketExists, objects, locked, files, hist, last>>

\* self._cached_s3_clients[region] = <the client constructed>
ClStore(t) ==
  /\ threads[t].pc = "store"
  /\ clients' = clients \cup {threads[t].region}
  /\ threads' = [threads EXCEPT ![t].pc = "read",
                                ![t].stored = 1 + Cardinality({u \in DOMAIN threads :
                                                                 threads[u].stored > 0})]
  /\ UNCHANGED <<region, built, bucketExists, objects, locked, files, hist, last>>

\* return self._cached_s3_clients[region]
ClReturn(t) ==
  /\ threads[t].pc = "read"
  /\ threads' = [threads EXCEPT ![t].pc = "returned",
                                ![t].ret = CacheValue(threads[t].region)]
  /\ last' = Done("_s3_client", [thread |-> t, region |-> threads[t].arg], "none",
                  CacheValue(threads[t].region), <<>>, "none")
  /\ UNCHANGED <<region, clients, built, bucketExists, objects, locked, files, hist>>

InitCC ==
  /\ region \in {""} \cup Regions
  /\ clients = {}
  /\ bucketExists = TRUE
  /\ objects = EmptyFn
  /\ locked = {}
  /\ files = EmptyFn
  /\ last = Done("init", None, "none", None, <<>>, "none")
  /\ hist = EmptyFn
  /\ job = NoJob
  /\ NoMultipart
  /\ NoList
  /\ NoPeer
  /\ NoMeta
  /\ NoAuth
  /\ NoVm
  /\ NoProv
  /\ threads \in [1..MaxThreads -> {ClThread(arg) : arg \in Opt(Regions)}]

NextCC ==
  /\ UNCHANGED <<job, mpvars, iters, cur, peer, meta, stamps, auth, vm, prov>>
  /\ \E t \in DOMAIN threads :
       \/ ClCheck(t)
       \/ ClBuild(t)
       \/ ClStore(t)
       \/ ClReturn(t)

SpecCC == InitCC /\ [][NextCC]_vars

\* ------------------------------------- delete_objects on a bucket that holds
\* the keys.  The bucket holds every key 1..MaxKeys; the service may refuse
\* to delete key 1.  One delete_objects call for each length of the key list.
InitDelObj ==
  /\ region = "eu-north1"
  /\ clients = {}
  /\ bucketExists = TRUE
  /\ objects = [k \in 1..MaxKeys |-> <<>>]
  /\ locked \in {{}, {1}}
  /\ files = EmptyFn
  /\ last = Done("init", None, "none", None, <<>>, "none")
  /\ hist = EmptyFn
  /\ job = NoJob
  /\ NoMultipart
  /\ NoExt

NextDelObj ==
  /\ UNCHANGED <<job, mpvars, extvars>>
  /\ \E n \in 0..MaxKeys : last.op = "init" /\ DeleteObjects(KeyList(n))

SpecDelObj == InitDelObj /\ [][NextDelObj]_vars

\* ------------------------------------ complete_multipart_upload runs to its end
\* One complete_multipart_upload call on a session whose parts are all
\* accepted, its steps taken as long as they can be: the loop and the
\* finalize request are straight-line code of one caller.
\* bound: the loop is followed while all_parts holds up to MaxListed parts
MaxListed == 2 * TopPart

CompleteListCapped ==
  /\ Len(cmu.all_parts) <= MaxListed
  /\ CompleteList

\* the sessions: a few parts of any numbers, two parts far apart, or a run
\* of parts around the size of one page
PartSets ==
  {[p \in S |-> PartBody(p)] :
     S \in SUBSET (1..MaxPartNum) \cup {{p, TopPart} : p \in 1..MaxPartNum}}
    \cup PartRuns

InitMPLive ==
  /\ region = "eu-north1"
  /\ clients = {}
  /\ bucketExists = TRUE
  /\ objects = EmptyFn
  /\ locked = {}
  /\ files = EmptyFn
  /\ last = Done("init", None, "none", None, <<>>, "none")
  /\ hist = EmptyFn
  /\ job = NoJob
  /\ cmu = NoCmu
  /\ sent = {}
  /\ mpSession = "open"
  /\ mpParts \in PartSets
  /\ NoExt

NextMPLive ==
  /\ UNCHANGED extvars
  /\ \/ last.op = "init" /\ CompleteStart(MpKey)
     \/ CompleteListCapped
     \/ CompleteFinalize

SpecMPLive ==
  /\ InitMPLive
  /\ [][NextMPLive]_vars
  /\ WF_vars(CompleteListCapped /\ UNCHANGED extvars)
  /\ WF_vars(CompleteFinalize /\ UNCHANGED extvars)

\* ------------------------------------------------- NebiusServer.wait_for_state
\* vm holds one NebiusServer (auth, the cached _instance), the instance at
\* the provider (its status and when it last changed), the clock, and one
\* wait_for_state call: its position, arguments, start time and outcome.
\* await asyncio.sleep(5)
PollInterval == 5

\* bound: the timeouts of the calls go up to MaxTimeout seconds
MaxTimeout == 10

Statuses == {"STARTING", "RUNNING", "STOPPED", "PROVISIONING"}

\* state_map.get(instance.status, ServerState.UNKNOWN)
StateMap(status) ==
  CASE status = "RUNNING" -> "RUNNING"
    [] status = "STOPPED" -> "STOPPED"
    [] status = "STARTING" -> "PENDING"
    [] status = "STOPPING" -> "STOPPING"
    [] status = "TERMINATED" -> "TERMINATED"
    [] status = "ERROR" -> "ERROR"
    [] OTHER -> "UNKNOWN"

\* a NebiusServer after construction, or after the caller has set its auth
NewServer(a, status) ==
  [auth |-> a, instance |-> "None", status |-> status, changed |-> 0, now |-> 0,
   pc |-> "idle", target |-> "", timeout |-> 0, start |-> 0, ret |-> "", exc |-> "none"]

\* wait_for_state(target_state, timeout): start_time = loop.time()
WaitForState(target, timeout) ==
  /\ vm.pc = "idle"
  /\ vm' = [vm EXCEPT !.pc = "poll", !.target = target, !.timeout = timeout,
                      !.start = vm.now]

\* _get_instance: the instance is fetched when self._instance is not set
InstanceCached == vm.instance # "None"

\* current_state = await self.get_state(); the comparison with the target
GetState ==
  /\ vm.pc = "poll"
  /\ IF ~InstanceCached /\ vm.auth = "None"
     THEN vm' = [vm EXCEPT !.pc = "raised", !.exc = "AttributeError"]
     ELSE \E out \in {"served", "error"} :
       IF ~InstanceCached /\ out = "error"
       THEN vm' = [vm EXCEPT !.pc = "raised", !.exc = "RequestError"]
       ELSE LET instance == IF InstanceCached THEN vm.instance ELSE vm.status
                current_state == StateMap(instance)
            IN vm' = IF current_state = vm.target
                     THEN [vm EXCEPT !.instance = instance, !.pc = "returned",
                                     !.ret = current_state]
                     ELSE [vm EXCEPT !.instance = instance, !.pc = "check"]

\* if loop.time() - start_time > timeout: raise TimeoutError
CheckTimeout ==
  /\ vm.pc = "check"
  /\ vm' = IF vm.now - vm.start > vm.timeout
           THEN [vm EXCEPT !.pc = "raised", !.exc = "TimeoutError"]
           ELSE [vm EXCEPT !.pc = "sleep"]

\* await asyncio.sleep(5)
Sleep ==
  /\ vm.pc = "sleep"
  /\ vm' = [vm EXCEPT !.pc = "poll", !.now = vm.now + PollInterval]

\* the instance changes its status at the provider
ProviderChange ==
  /\ vm.pc \notin {"returned", "raised"}
  /\ \E s \in Statuses \ {vm.status} :
       vm' = [vm EXCEPT !.status = s, !.changed = vm.now]

InitWait ==
  /\ region = ""
  /\ clients = {}
  /\ bucketExists = TRUE
  /\ objects = EmptyFn
  /\ locked = {}
  /\ files = EmptyFn
  /\ last = Done("init", None, "none", None, <<>>, "none")
  /\ hist = EmptyFn
  /\ job = NoJob
  /\ NoMultipart
  /\ NoList
  /\ NoPeer
  /\ NoMeta
  /\ NoAuth
  /\ NoThreads
  /\ NoProv
  /\ \E a \in {"None", "auth"}, status \in Statuses : vm = NewServer(a, status)

NextWait ==
  /\ UNCHANGED <<region, clients, bucketExists, objects, locked, files, last, hist, job,
                 mpvars, iters, cur, peer, built, meta, stamps, auth, threads, prov>>
  /\ \/ \E target \in {"RUNNING", "STOPPED"}, timeout \in {0, MaxTimeout} :
          WaitForState(target, timeout)
     \/ GetState
     \/ CheckTimeout
     \/ Sleep
     \/ ProviderChange

SpecWait == InitWait /\ [][NextWait]_vars

\* ------------------------------------- NebiusCloudProvider.provision_instance
\* prov holds the provider's side (disks: id -> name, instance requests
\* received), the environment (NEBIUS_PROJECT_ID), and the provision_instance
\* calls: the position of the running call, its name argument, the disk it
\* created, whether that disk's operation has completed, and its outcome.
\* bound: provision_instance is called at most MaxCalls times
MaxCalls == 2

InstNames == {"gw1", "gw2"}

\* name=f"{name}-disk"
DiskName(nm) == <<nm, "-disk">>

\* the id the provider gives the next disk
FreshDisk(disks) == IF disks = <<>> THEN 1 ELSE Len(disks) + 1

\* a provider account: disks is a sequence of records, one per id ever given
NewProvider(project, disks) ==
  [project |-> project, disks |-> disks, requests |-> <<>>, calls |-> 0,
   pc |-> "idle", name |-> "", disk_id |-> 0, waited |-> FALSE,
   exc |-> "none", ret |-> 0]

\* the disks that exist at the provider
LiveDisks(disks) == {i \in DOMAIN disks : disks[i].live}

\* provision_instance(region, instance_class, name): the project id check
ProvisionInstance(nm) ==
  /\ prov.pc \in {"idle", "returned", "raised"}
  /\ prov.calls < MaxCalls
  /\ LET p == [prov EXCEPT !.calls = prov.calls + 1, !.name = nm, !.disk_id = 0,
                           !.waited = FALSE, !.exc = "none", !.ret = 0]
     IN vm' = vm /\
        prov' = IF prov.project = ""
                THEN [p EXCEPT !.pc = "raised", !.exc = "ValueError"]
                ELSE [p EXCEPT !.pc = "cleanup"]

\* the disks named f"{name}-disk" are deleted one by one; an exception of the
\* listing or of a deletion is logged and ends the loop
DiskCleanup ==
  /\ prov.pc = "cleanup"
  /\ \E gone \in SUBSET {i \in LiveDisks(prov.disks) :
                           prov.disks[i].name = DiskName(prov.name)} :
       prov' = [prov EXCEPT !.pc = "create_disk",
                  !.disks = [i \in DOMAIN prov.disks |->
                               IF i \in gone THEN [prov.disks[i] EXCEPT !.live = FALSE]
                               ELSE prov.disks[i]]]
  /\ vm' = vm

\* disk_operation = await disk_service.create(request=CreateDiskRequest(...))
DiskCreate ==
  /\ prov.pc = "create_disk"
  /\ \E out \in {"served", "error"} :
       prov' = IF out = "error"
               THEN [prov EXCEPT !.pc = "raised", !.exc = "RequestError"]
               ELSE [prov EXCEPT !.pc = "wait_disk",
                       !.disk_id = FreshDisk(prov.disks),
                       !.disks = Append(prov.disks,
                                   [name |-> DiskName(prov.name), live |-> TRUE,
                                    by |-> prov.calls])]
  /\ vm' = vm

\* await disk_operation.wait(); disk_id = disk_operation.resource_id
\* (an operation that fails may or may not leave its disk at the provider)
DiskWait ==
  /\ prov.pc = "wait_disk"
  /\ \E out \in {"served", "error"}, left \in BOOLEAN :
       prov' = IF out = "error"
               THEN [prov EXCEPT !.pc = "raised", !.exc = "RequestError",
                                 !.disks[prov.disk_id].live = left]
               ELSE [prov EXCEPT !.pc = "create_instance", !.waited = TRUE]
  /\ vm' = vm

\* operation = await compute.create(request), existing_disk=ExistingDisk(id=disk_id)
InstanceCreate ==
  /\ prov.pc = "create_instance"
  /\ \E out \in {"served", "error"} :
       LET request == [call |-> prov.calls, name |-> prov.name,
                       disk_id |-> prov.disk_id, disk_ready |-> prov.waited]
       IN prov' = IF out = "error"
                  THEN [prov EXCEPT !.pc = "raised", !.exc = "RequestError",
                                    !.requests = Append(prov.requests, request)]
                  ELSE [prov EXCEPT !.pc = "wait_instance",
                                    !.requests = Append(prov.requests, request)]
  /\ vm' = vm

\* await operation.wait(); return NebiusServer(instance_id=...)
InstanceWait ==
  /\ prov.pc = "wait_instance"
  /\ \E out \in {"served", "error"} :
       prov' = IF out = "error"
               THEN [prov EXCEPT !.pc = "raised", !.exc = "RequestError"]
               ELSE [prov EXCEPT !.pc = "returned", !.ret = Len(prov.requests)]
  /\ vm' = vm

InitProv ==
  /\ region = ""
  /\ clients = {}
  /\ bucketExists = TRUE
  /\ objects = EmptyFn
  /\ locked = {}
  /\ files = EmptyFn
  /\ last = Done("init", None, "none", None, <<>>, "none")
  /\ hist = EmptyFn
  /\ job = NoJob
  /\ NoMultipart
  /\ NoList
  /\ NoPeer
  /\ NoMeta
  /\ NoAuth
  /\ NoThreads
  /\ NoVm
  /\ \E project \in {"", "project"},
        disks \in {<<>>, <<[name |-> DiskName("gw1"), live |-> TRUE, by |-> 0]>>} :
       prov = NewProvider(project, disks)

NextProv ==
  /\ UNCHANGED <<region, clients, bucketExists, objects, locked, files, last, hist, job,
                 mpvars, iters, cur, peer, built, meta, stamps, auth, threads>>
  /\ \/ \E nm \in InstNames : ProvisionInstance(nm)
     \/ DiskCleanup
     \/ DiskCreate
     \/ DiskWait
     \/ InstanceCreate
     \/ InstanceWait

SpecProv == InitProv /\ [][NextProv]_vars

\* ------------------------------------------------------------------ claims
NetExcs == {NetExc(out) : out \in {"denied", "transport"}}

Uploaded(key) == key \in DOMAIN hist /\ hist[key].what = "uploaded"

RECURSIVE ConcatParts(_, _)
ConcatParts(p, P) == IF p > P THEN <<>> ELSE PartBody(p) \o ConcatParts(p + 1, P)

\* C1: multipart order-independence.  When the uploads of the parts 1..P of
\* a session (P >= 1), made through upload_object in any order, have all
\* returned and complete_multipart_upload has been called after them and is
\* over (no wire call of it lost to the network, no part of the session sent
\* by anyone else), the object holds the part contents in ascending
\* part-number order.
C1_OrderIndependence ==
  (/\ last.op = "complete_multipart_upload"
   /\ last.cause \notin NetExcs
   /\ sent # {}
   /\ sent = 1..Cardinality(sent)
   /\ DOMAIN mpParts \subseteq sent)
    => /\ MpKey \in DOMAIN objects
       /\ objects[MpKey] = ConcatParts(1, Cardinality(sent))

\* C2: the finalize request of complete_multipart_upload lists every part
\* the service accepted exactly once, in strictly increasing part-number
\* order, each with the completion tag the service reported for it.
C2_FinalizeListsEachPartOnce ==
  (/\ last.op = "complete_multipart_upload"
   /\ last.wire # <<>>
   /\ last.wire[Len(last.wire)].call = "complete_multipart_upload")
    => LET list == last.wire[Len(last.wire)].parts IN
       /\ {list[i].PartNumber : i \in 1..Len(list)} = DOMAIN mpParts
       /\ Len(list) = Cardinality(DOMAIN mpParts)
       /\ \A i \in 1..Len(list) :
            /\ i > 1 => list[i - 1].PartNumber < list[i].PartNumber
            /\ list[i].ETag = ETag(mpParts[list[i].PartNumber])

\* C3: range download assembly.  For an object of length m and 0 < n < m,
\* download_object of (offset 0, size n) and then of (offset n, size m - n),
\* both with write_at_offset and into the same file, both returning, leave
\* a file byte-identical to the object (what a whole-object download writes).
C3_RangeAssembly ==
  (/\ job.todo = <<>> /\ Len(job.done) = 2
   /\ job.done[1].exc = "none" /\ job.done[2].exc = "none"
   /\ job.done[1].req.offset_bytes = {0}
   /\ job.done[2].req.offset_bytes = job.done[1].req.size_bytes
   /\ TheVal(job.done[1].req.size_bytes) + TheVal(job.done[2].req.size_bytes)
        = Len(objects[1]))
    => files["dst"] = objects[1]

\* C4: round trip.  Once upload_object of a file holding B to key K has
\* returned without error (and K was not the subject of a later delete), a
\* get_object(K) that returns yields exactly B, a whole-object
\* download_object(K) that returns leaves exactly B in the destination file,
\* and an exists(K) whose wire call is answered by the service is true.
C4_RoundTrip ==
  /\ (last.op = "get_object" /\ last.exc = "none" /\ Uploaded(last.args.key))
       => last.ret = hist[last.args.key].data
  /\ (last.op = "download_object" /\ last.exc = "none" /\ Uploaded(last.args.key)
        /\ last.args.offset_bytes = None /\ last.args.size_bytes = None)
       => /\ last.args.path \in DOMAIN files
          /\ files[last.args.path] = hist[last.args.key].data
  /\ (last.op = "exists" /\ Uploaded(last.args.key) /\ last.cause \notin NetExcs
        /\ last.cause # "ValueError")
       => (last.exc = "none" /\ last.ret = TRUE)

C4_Witness ==
  /\ last.op = "get_object" /\ last.exc = "none" /\ Uploaded(last.args.key)
  /\ last.ret # <<>>
  /\ last.ret = files["src"]

\* C5: delete_objects on n keys issues one batched delete call per started
\* thousand: every call carries 1 to 1000 keys, every call but the last one
\* issued carries exactly 1000, the batches in call order are the input
\* list from its start on, and a call that returns has issued
\* ceil(n / 1000) calls that together carry the whole list.
C5_Batches ==
  last.op = "delete_objects" =>
    LET keys == last.args.keys
        w == last.wire
    IN
    /\ \A i \in 1..Len(w) :
         /\ w[i].call = "delete_objects"
         /\ Len(w[i].keys) >= 1 /\ Len(w[i].keys) <= 1000
         /\ i < Len(w) => Len(w[i].keys) = 1000
         /\ \A j \in 1..Len(w[i].keys) :
              /\ (i - 1) * 1000 + j <= Len(keys)
              /\ w[i].keys[j] = keys[(i - 1) * 1000 + j]
    /\ last.exc = "none" =>
         /\ Len(w) * 1000 >= Len(keys)
         /\ (Len(w) - 1) * 1000 < Len(keys) \/ (Len(w) = 0 /\ Len(keys) = 0)
         /\ (Len(w) > 0 => (Len(w) - 1) * 1000 + Len(w[Len(w)].keys) = Len(keys))

C5_Witness ==
  /\ last.op = "delete_objects" /\ last.exc = "none"
  /\ Len(last.args.keys) = 2001
  /\ Len(last.wire) = 3
  /\ Len(last.wire[1].keys) = 1000
  /\ Len(last.wire[2].keys) = 1000
  /\ Len(last.wire[3].keys) = 1

\* C6: after delete_objects(keys) has returned without raising, exists(k) is
\* false for every k of keys (until k is uploaded again).
C6_DeletedThenAbsent ==
  (last.op = "exists" /\ last.args.key \in DOMAIN hist
     /\ hist[last.args.key].what = "deleted")
    => (last.exc = "none" /\ last.ret = FALSE)

\* C7: exists and bucket_exists never raise; they return a boolean for every
\* outcome of the client lookup and of the wire call, and true only when the
\* wire call succeeded and the object (the bucket) is there.
C7_NeverRaise ==
  /\ last.op = "exists" =>
       /\ last.exc = "none"
       /\ last.ret \in BOOLEAN
       /\ last.ret = TRUE => (last.cause = "none" /\ last.args.key \in DOMAIN objects)
  /\ last.op = "bucket_exists" =>
       /\ last.exc = "none"
       /\ last.ret \in BOOLEAN
       /\ last.ret = TRUE => (last.cause = "none" /\ bucketExists)

C7_Witness ==
  /\ last.op = "exists"
  /\ last.cause = "EndpointConnectionError"
  /\ last.args.key \in DOMAIN objects
  /\ last.ret = FALSE

\* C8: upload_object given both part_number and upload_id is accepted and
\* issues exactly one upload-part wire call and no whole-object put; given
\* neither, it issues exactly one whole-object put and no upload-part call.
C8_PartOrWhole ==
  (last.op = "upload_object" /\ last.args.path \in DOMAIN files
     /\ last.cause # "ValueError")
    => /\ last.exc # "TypeError"
       /\ Len(last.wire) = 1
       /\ (last.args.part_number # None /\ last.args.upload_id # None)
            => last.wire[1].call = "upload_part"
       /\ (last.args.part_number = None /\ last.args.upload_id = None)
            => last.wire[1].call = "upload_file"

\* C9: an upload_object call that is given a checksum which is not the
\* digest of the uploaded bytes (the upload the service rejects with
\* InvalidDigest) raises the checksum-mismatch error, unless the call fails
\* on the way for another reason, and then it raises a different error.
C9_ChecksumMismatch ==
  (last.op = "upload_object" /\ last.args.path \in DOMAIN files
     /\ last.args.check_md5 # None
     /\ last.args.check_md5 # {Md5(files[last.args.path])})
    => \/ last.exc = "ChecksumMismatchException"
       \/ last.cause \in NetExcs \cup {"ValueError", "ClientError.NoSuchBucket"}

\* C10: when the wire call of get_object, get_obj_size, upload_object,
\* download_object or delete_objects fails with a transport error, the
\* caller receives that transport error as it is.
C10_TransportAsIs ==
  (last.op \in {"get_object", "get_obj_size", "upload_object", "download_object",
                "delete_objects"}
     /\ last.cause = "EndpointConnectionError")
    => last.exc = "EndpointConnectionError"

\* the provider part of a tag: the text before its first ":" (the whole tag
\* when it has none)
ProviderOf(tag) ==
  IF \E i \in 1..Len(tag) : tag[i] = ":"
  THEN SubSeq(tag, 1, (CHOOSE i \in 1..Len(tag) :
                         tag[i] = ":" /\ \A j \in 1..(i - 1) : tag[j] # ":") - 1)
  ELSE tag

Registered == {Dispatch[i].prefix : i \in 1..Len(Dispatch)}

\* C11: create(region_tag, bucket) returns a backend only when the provider
\* part of the tag is exactly a registered provider name, and then that
\* provider's backend; for every other tag it raises the configuration
\* error (ValueError, invalid region_tag).
C11_DispatchExact ==
  last.op = "create" =>
    /\ last.exc = "none" =>
         \E i \in 1..Len(Dispatch) :
           /\ ProviderOf(last.args.region_tag) = Dispatch[i].prefix
           /\ last.ret = Dispatch[i].class
    /\ ProviderOf(last.args.region_tag) \notin Registered =>
         (last.exc = "ValueError" /\ last.cause = "Invalid region_tag")

\* a generator that ran to its end without an exception
Exhausted(it) == it.pc = "closed" /\ ~it.more

\* C15: on a bucket nobody modifies, a list_objects(prefix) generator that
\* is consumed to its end has yielded exactly one record per stored object
\* whose key starts with prefix, across its pages; every yielded record has
\* exists true; and a generator yields the same records from the beginning
\* whatever another generator of the same prefix has consumed.
C15_ListingComplete ==
  \A i \in 1..Len(iters) :
    LET it == iters[i]
        want == KeysAfter(objects, it.prefix, 0)
    IN
    /\ \A n \in 1..Len(it.yielded) :
         /\ ObjectExists(it.yielded[n])
         /\ it.yielded[n].key \in want
         /\ \A m \in 1..Len(it.yielded) : it.yielded[m].key = it.yielded[n].key => m = n
    /\ Exhausted(it) =>
         /\ {it.yielded[n].key : n \in 1..Len(it.yielded)} = want
         /\ Len(it.wire) >= 1
    /\ \A j \in 1..Len(iters) :
         (iters[j].prefix = it.prefix /\ Len(iters[j].yielded) <= Len(it.yielded))
           => iters[j].yielded = SubSeq(it.yielded, 1, Len(iters[j].yielded))

C15_Witness ==
  /\ Len(iters) = 2
  /\ iters[1].prefix = <<>> /\ iters[2].prefix = <<>>
  /\ Exhausted(iters[1]) /\ Exhausted(iters[2])
  /\ Len(iters[1].wire) = 2
  /\ Len(iters[1].yielded) = 3
  /\ iters[2].yielded = iters[1].yielded

\* C12: delete_bucket fails unless the bucket is empty.  Called on a bucket
\* that holds an object it raises and deletes neither the bucket nor any
\* object; called on an empty bucket, every wire call answered, it removes
\* the bucket.
C12_FailsUnlessEmpty ==
  [][ (last'.op = "delete_bucket" /\ bucketExists /\ ClientOk) =>
        /\ objects # EmptyFn =>
             /\ last'.exc # "none"
             /\ objects' = objects
             /\ bucketExists'
        /\ (objects = EmptyFn /\ last'.cause \notin NetExcs) =>
             (last'.exc = "none" /\ ~bucketExists') ]_vars

\* the wire log holds a call of the given name
Called(wire, name) == \E i \in 1..Len(wire) : wire[i].call = name

\* C12 amended: delete_bucket drains the bucket itself.  With every wire
\* call answered it deletes each object the service lets go; when none is
\* left it removes the bucket and returns, and when an object remains it
\* raises and keeps the bucket.
C12_DrainsThenDeletes ==
  [][ (last'.op = "delete_bucket" /\ bucketExists /\ ClientOk
         /\ last'.cause \notin NetExcs) =>
        /\ objects' = Drop(objects, DOMAIN objects \ locked)
        /\ IF DOMAIN objects \cap locked = {}
           THEN last'.exc = "none" /\ ~bucketExists' /\ objects' = EmptyFn
           ELSE last'.exc # "none" /\ bucketExists' ]_vars

C12_Witness ==
  /\ last.op = "delete_bucket"
  /\ last.exc = "none"
  /\ ~bucketExists
  /\ Called(last.wire, "delete_objects")
  /\ objects = EmptyFn

\* the regions an instance constructed a client for
BuiltBy(inst) == {built[i].region : i \in {j \in 1..Len(built) : built[j].inst = inst}}

\* C13: over any sequence of calls, an instance constructs the client of a
\* region at most once; a _s3_client call that returns hands out the client
\* this instance constructed for the region; and the cache of an instance
\* holds exactly the clients that instance constructed.
C13_ClientBuiltOnce ==
  /\ \A i, j \in 1..Len(built) : built[i] = built[j] => i = j
  /\ (last.op = "_s3_client" /\ last.exc = "none") =>
       /\ last.ret \in 1..Len(built)
       /\ built[last.ret].inst = last.args.inst
       /\ built[last.ret].region \in NEBIUS_REGIONS
       /\ last.args.region # None => built[last.ret].region = TheVal(last.args.region)
  /\ clients = BuiltBy(cur)
  /\ peer.clients = BuiltBy(3 - cur)

C13_Witness ==
  /\ Len(built) = 2
  /\ cur = 1
  /\ last.op = "_s3_client" /\ last.exc = "none"
  /\ last.ret = 1
  /\ peer.clients # {}

\* C14: a region that is not in the region table is a hard configuration
\* error: _s3_client and create_bucket raise ValueError for it before any
\* wire call, and leave the client cache and the current region as they were.
C14_UnknownRegion ==
  [][ (\/ /\ last'.op = "_s3_client"
          /\ (IF last'.args.region = None THEN aws_region
              ELSE TheVal(last'.args.region)) \notin NEBIUS_REGIONS
       \/ /\ last'.op = "create_bucket"
          /\ TagRegion(last'.args.tag) \notin NEBIUS_REGIONS)
      => /\ last'.exc = "ValueError"
         /\ last'.wire = <<>>
         /\ clients' = clients
         /\ region' = region
         /\ built' = built ]_vars

C14_Witness ==
  /\ last.op \in {"_s3_client", "create_bucket"}
  /\ last.exc = "ValueError"
  /\ clients # {}
  /\ region = "eu-north1"

Getters == {"get_obj_size", "get_obj_last_modified", "get_obj_mime_type"}

\* C16: for a key that is absent from the bucket and has no fetched
\* metadata, each of the three getters raises and returns no value, and what
\* it raises when the service answers is NoSuchObjectException; a failed
\* lookup is not remembered: a not-found error always comes from a lookup
\* made by this call, and a getter whose lookup finds the object returns.
C16_AbsentKeyNotFound ==
  last.op \in Getters =>
    /\ (last.args.key \notin DOMAIN objects /\ last.args.key \notin DOMAIN meta) =>
         /\ last.exc # "none"
         /\ last.ret = None
         /\ last.cause = "ClientError.NoSuchKey" => last.exc = "NoSuchObjectException"
    /\ last.exc = "NoSuchObjectException" => last.cause # "none"
    /\ (last.args.key \in DOMAIN objects /\ bucketExists /\ last.cause = "none") =>
         last.exc = "none"

C16_Witness ==
  /\ last.op = "get_obj_last_modified"
  /\ last.exc = "NoSuchObjectException"
  /\ last.cause = "ClientError.NoSuchKey"
  /\ last.args.key \in DOMAIN stamps

\* C17: once a metadata getter has succeeded for key K, a later call of any
\* of the three getters for K issues no wire call and returns the value of
\* the first fetch (here: for a K whose metadata get_obj_metadata holds).
C17_MetadataFetchedOnce ==
  [][ (last'.op \in Getters /\ last'.args.key \in DOMAIN meta) =>
        /\ last'.wire = <<>>
        /\ last'.exc = "none"
        /\ last'.ret = (IF last'.op = "get_obj_size" THEN meta[last'.args.key].ContentLength
                        ELSE IF last'.op = "get_obj_last_modified"
                        THEN meta[last'.args.key].LastModified
                        ELSE meta[last'.args.key].ContentType) ]_vars

\* C18: download_object takes offset_bytes and size_bytes only as a pair.  A
\* call that supplies one of them without the other, whatever the offset, is
\* rejected as a usage error (the assertion) before any wire call is made
\* and before the destination file is touched.
C18_OffsetSizePair ==
  [][ (/\ last'.op = "download_object"
       /\ last'.cause # "ValueError"
       /\ (last'.args.offset_bytes = None) # (last'.args.size_bytes = None))
      => /\ last'.exc = "AssertionError"
         /\ last'.wire = <<>>
         /\ files' = files ]_vars

CredentialsMessage ==
  "Either credentials_file or service_account_id, publickey_id, and private_key must be provided"

\* the credentials hold all of the keys K
Contain(c, K) == K \subseteq DOMAIN c

\* C19 as stated: with the SDK importable, NebiusAuthentication(credentials)
\* raises ValueError with the message exactly when the credentials contain
\* neither credentials_file, nor all three of service_account_id,
\* publickey_id and private_key, nor both access_key_id and
\* secret_access_key; otherwise it succeeds, reads no file and leaves the
\* SDK uninitialized.
C19_RejectsExactly ==
  (last.op = "NebiusAuthentication" /\ auth.have_sdk) =>
    IF /\ ~Contain(last.args, {"credentials_file"})
       /\ ~Contain(last.args, {"service_account_id", "publickey_id", "private_key"})
       /\ ~Contain(last.args, {"access_key_id", "secret_access_key"})
    THEN last.exc = "ValueError" /\ last.cause = CredentialsMessage
    ELSE /\ last.exc = "none"
         /\ auth.made /\ auth.sdk = "None" /\ auth.disk = {} /\ last.wire = <<>>

\* C19 amended: the same, where credentials_file, access_key_id and
\* secret_access_key count only with a non-empty value (an empty or None
\* value is as good as absent), while the three service-account fields
\* count when they are present, whatever their values.
C19_RejectsExactlyNonEmpty ==
  (last.op = "NebiusAuthentication" /\ auth.have_sdk) =>
    IF /\ ~(Contain(last.args, {"credentials_file"}) /\ last.args["credentials_file"] # "")
       /\ ~Contain(last.args, {"service_account_id", "publickey_id", "private_key"})
       /\ ~(/\ Contain(last.args, {"access_key_id", "secret_access_key"})
            /\ last.args["access_key_id"] # ""
            /\ last.args["secret_access_key"] # "")
    THEN last.exc = "ValueError" /\ last.cause = CredentialsMessage /\ ~auth.made
    ELSE /\ last.exc = "none"
         /\ auth.made /\ auth.sdk = "None" /\ auth.disk = {} /\ last.wire = <<>>

C19_Witness ==
  /\ last.op = "NebiusAuthentication"
  /\ last.exc = "none"
  /\ DOMAIN last.args = {"credentials_file"}
  /\ last.args["credentials_file"] = "nonexistent.json"
  /\ auth.made /\ auth.sdk = "None"

\* C20: after cleanup() has returned, from any prior state and with the
\* file system letting every unlink through, the SDK handle is None, no
\* cleanup task is pending, no temporary key file exists and the stored
\* private-key path is cleared.
C20_CleanupClearsAll ==
  (last.op = "cleanup" /\ last.cause = "none") =>
    /\ last.exc = "none"
    /\ auth.sdk = "None"
    /\ auth.cleanup_tasks = <<>>
    /\ auth.disk = {}
    /\ auth.private_key_path = 0

\* C21: a bucket_exists() call that follows a create_bucket call which
\* returned without raising, its listing answered, returns true; and
\* create_bucket on a bucket that already exists issues no create-bucket
\* wire call and succeeds.
C21_CreateOnlyIfAbsent ==
  [][ /\ (/\ last.op = "create_bucket" /\ last.exc = "none"
          /\ last'.op = "bucket_exists" /\ last'.cause = "none") =>
           last'.ret = TRUE
      /\ (/\ last'.op = "create_bucket" /\ bucketExists
          /\ TagRegion(last'.args.tag) \in NEBIUS_REGIONS) =>
           (~Called(last'.wire, "create_bucket") /\ last'.exc = "none") ]_vars

\* C22: once every concurrent download_object call of a partition of the
\* object into ranges has returned, the destination file is byte-identical
\* to the object.
C22_ConcurrentRanges ==
  (/\ threads # <<>>
   /\ \A t \in DOMAIN threads : threads[t].pc = "returned") =>
    ("dst" \in DOMAIN files /\ files["dst"] = objects[1])

\* C23: in every interleaving of concurrent first calls of _s3_client on one
\* backend object, the client constructor runs at most once for a region,
\* and the callers of one region all receive the same client.
C23_OneClientPerRegion ==
  /\ \A i, j \in 1..Len(built) : built[i].region = built[j].region => i = j
  /\ \A t, u \in DOMAIN threads :
       (/\ threads[t].pc = "returned" /\ threads[u].pc = "returned"
        /\ threads[t].region = threads[u].region) => threads[t].ret = threads[u].ret

\* the bytes [offset, offset + size) of obj
Slice(obj, offset, size) == SubSeq(obj, offset + 1, offset + size)

\* C24: a download_object call that gets as far as the fetch issues exactly
\* one get_object wire call; the call carries a range header exactly when
\* offset_bytes and size_bytes were both given, the header is then
\* bytes=<offset>-<offset + size - 1>, which is a byte range, and what it
\* fetches from an object that holds the range is the size_bytes bytes from
\* offset_bytes on.
C24_SingleRangedFetch ==
  [][ (last'.op = "download_object" /\ last'.exc \notin {"AssertionError", "ValueError"})
      => LET a == last'.args
             both == a.offset_bytes # None /\ a.size_bytes # None
         IN
         /\ Len(last'.wire) = 1
         /\ last'.wire[1].call = "get_object"
         /\ (last'.wire[1].range # None) = both
         /\ both =>
              LET off == TheVal(a.offset_bytes)
                  size == TheVal(a.size_bytes)
              IN /\ last'.wire[1].range = {<<off, off + size - 1>>}
                 /\ RangeGiven(last'.wire[1].range)
                 /\ (/\ last'.exc = "none"
                     /\ off + size <= Len(objects[a.key])
                     /\ ~a.write_at_offset)
                    => files'[a.path] = Slice(objects[a.key], off, size) ]_vars

\* C25: when the wire call for chunk i of delete_objects fails, the error
\* reaches the caller at once: chunk i was sent once and is the last call
\* made, and the keys deleted are exactly those of chunks 1..i-1.
C25_FailedChunkStops ==
  [][ (last'.op = "delete_objects" /\ last'.cause \in NetExcs) =>
        LET keys == last'.args.keys
            i == Len(last'.wire)
        IN
        /\ last'.exc = last'.cause
        /\ i >= 1
        /\ \A j \in 1..i :
             last'.wire[j].keys =
               SubSeq(keys, (j - 1) * DeleteBatch + 1, Min(j * DeleteBatch, Len(keys)))
        /\ DOMAIN objects \ DOMAIN objects' =
             {keys[j] : j \in 1..((i - 1) * DeleteBatch)} ]_vars

\* the region the instance in use works in: its _region, eu-north1 if unset
RegionInUse == IF region = "" THEN "eu-north1" ELSE region

\* C26: a create_bucket call that returns has set the instance's region to
\* the supported region R its tag names; the region stays until the next
\* create_bucket; region_tag() is "nebius:" + the region; the client
\* _s3_client() hands out is the one cached for the region, constructed for
\* it with the region's endpoint of the table; an unset region counts as
\* eu-north1.
C26_RegionFollowsCreate ==
  [][ /\ (last'.op = "create_bucket" /\ last'.exc = "none") =>
           /\ last'.args.tag[Len(last'.args.tag)] \in {"eu-north1"}
           /\ region' = last'.args.tag[Len(last'.args.tag)]
      /\ (last'.op \notin {"create_bucket", "switch"} /\ region # "") =>
           region' = region
      /\ last'.op = "region_tag" =>
           (last'.exc = "none" /\ last'.ret = <<"nebius", RegionInUse>>)
      /\ (last'.op = "_s3_client" /\ last'.args.region = None /\ RegionInUse = "eu-north1") =>
           /\ last'.exc = "none"
           /\ last'.ret \in 1..Len(built')
           /\ built'[last'.ret] =
                [inst |-> cur, region |-> "eu-north1",
                 endpoint_url |-> "https://storage.eu-north1.nebius.cloud"]
           /\ "eu-north1" \in clients'
           /\ \A j \in (last'.ret + 1)..Len(built') :
                ~(built'[j].inst = cur /\ built'[j].region = "eu-north1")
           /\ "eu-north1" \in clients => built' = built ]_vars

C26_Witness ==
  /\ last.op = "create_bucket"
  /\ last.exc = "none"
  /\ last.args.tag = <<"nebius", "eu-north1">>
  /\ region = "eu-north1"
  /\ \E i \in 1..Len(built) :
       /\ built[i].inst = cur
       /\ built[i].region = "eu-north1"
       /\ built[i].endpoint_url = Endpoint["eu-north1"]

\* the positions of the calls of the given name in a wire log
CallsOf(wire, name) == {i \in 1..Len(wire) : wire[i].call = name}

\* C27: the part-listing loop of complete_multipart_upload terminates for
\* every set of accepted parts: a call that has entered the loop gets to its
\* end, and a call whose list-parts calls were all answered has then seen an
\* empty page after its last list call and has issued the finalize request
\* exactly once, as its last wire call.
C27_ListingTerminates ==
  /\ (cmu.pc = "list") ~> (cmu.pc = "idle" /\ last.op = "complete_multipart_upload")
  /\ [](last.op = "complete_multipart_upload" =>
          /\ CallsOf(last.wire, "complete_multipart_upload") \subseteq {Len(last.wire)}
          /\ (last.cause \notin NetExcs \cup {"ValueError"}) =>
               /\ CallsOf(last.wire, "complete_multipart_upload") = {Len(last.wire)}
               /\ Len(last.wire) >= 2
               /\ ListParts(last.wire[Len(last.wire) - 1].marker) = <<>>)

C27_Witness ==
  /\ last.op = "complete_multipart_upload"
  /\ last.cause \notin NetExcs
  /\ Cardinality(CallsOf(last.wire, "list_parts")) >= 3
  /\ 1 \notin DOMAIN mpParts
  /\ cmu.pc = "idle"

\* what a failed get_object call raises: key or bucket absent, permission
\* denied, no answer
FetchExcs == NetExcs \cup {"ClientError.NoSuchKey", "ClientError.NoSuchBucket"}

\* C28: when the fetch wire call of download_object fails, download_object
\* raises and leaves the local files as they were: no destination file is
\* created, and an existing one keeps its bytes.
C28_FailedFetchTouchesNothing ==
  [][ (last'.op = "download_object" /\ last'.cause \in FetchExcs) =>
        /\ last'.exc # "none"
        /\ Len(last'.wire) = 1
        /\ files' = files ]_vars

C28_Witness ==
  /\ last.op = "download_object"
  /\ last.cause = "ClientError.NoSuchKey"
  /\ last.exc # "none"
  /\ "dst" \in DOMAIN files
  /\ files["dst"] # <<>>

\* C29: wait_for_state returns only a state equal to its target, and it does
\* not raise TimeoutError when the instance took the target state at the
\* provider before the timeout elapsed and has kept it since.
C29_WaitSeesTarget ==
  /\ vm.pc = "returned" => vm.ret = vm.target
  /\ (vm.pc = "raised" /\ vm.exc = "TimeoutError") =>
       ~(/\ StateMap(vm.status) = vm.target
         /\ vm.changed - vm.start <= vm.timeout)

\* C30: every instance-creation request of provision_instance is issued after
\* the wait on the boot disk's creation operation has completed and names the
\* disk the call created, and a call that has raised has left at the provider
\* no disk that it created itself.
C30_DiskThenInstanceNoLeftover ==
  /\ \A i \in DOMAIN prov.requests :
       /\ prov.requests[i].disk_ready
       /\ prov.requests[i].disk_id \in DOMAIN prov.disks
       /\ prov.disks[prov.requests[i].disk_id].by = prov.requests[i].call
  /\ prov.pc = "raised" =>
       \A i \in LiveDisks(prov.disks) : prov.disks[i].by # prov.calls

=============================================================================
